---- MODULE Spec2Model ----
(***************************************************************************)
(* Model of the job-ad bot: the per-user submission state machine of       *)
(* main.py (membership gate, phone collection, ad validation, publication) *)
(* and the broadcast engine of admin_panel.py, over the tables of          *)
(* database.py.  Texts are sequences of one-character strings so that      *)
(* lower(), strip(), startswith(), "in" and re.sub/re.match are computed.  *)
(***************************************************************************)
EXTENDS Integers, Sequences, FiniteSets, TLC

VARIABLES fsm, data, users, ads, logs, feed, broadcasts, runs, last, nEvents, tasks

vars == <<fsm, data, users, ads, logs, feed, broadcasts, runs, last, nEvents, tasks>>

\* ---------------------------------------------------------------- bounds
MaxEvents == 3
MaxBroadcasts == 2
MaxTextLen == 5
MaxDigits == 16

\* ------------------------------------------------------- users and admins
Users == {1, 2, 3}
ADMIN_IDS == {1, 2}
\* the users who send messages and press buttons; user 2 only receives
Actors == {1, 3}

\* variant: every user who is known to the bot passes the check
is_admin_any_user(user_id) == user_id \in Users

is_admin(user_id) == user_id \in ADMIN_IDS

\* --------------------------------------------------------- FSM (aiogram)
Idle == "None"
waiting_for_phone == "waiting_for_phone"
waiting_for_ad_text == "waiting_for_ad_text"
waiting_message == "waiting_message"
confirm_broadcast_state == "confirm_broadcast"

AdCreationStates == {waiting_for_phone, waiting_for_ad_text}
BroadcastStates == {waiting_message, confirm_broadcast_state}
FsmStates == {Idle} \cup AdCreationStates \cup BroadcastStates

NoPhone == <<>>
NoText == ""
EmptyData == [phone |-> NoPhone, broadcast_text |-> NoText]

\* ------------------------------------------------------------ characters
Digits == {"0", "1", "2", "3", "4", "5", "6", "7", "8", "9"}
Whitespace == {" ", "\n"}

Lower(c) ==
    CASE c = "S" -> "s"
      [] c = "E" -> "e"
      [] c = "K" -> "k"
      [] c = "H" -> "h"
      [] c = "X" -> "x"
      [] OTHER -> c

LowerSeq(t) == [i \in 1..Len(t) |-> Lower(t[i])]

RECURSIVE LStrip(_)
LStrip(t) == IF t # <<>> /\ Head(t) \in Whitespace THEN LStrip(Tail(t)) ELSE t

RECURSIVE RStrip(_)
RStrip(t) ==
    IF t # <<>> /\ t[Len(t)] \in Whitespace
    THEN RStrip(SubSeq(t, 1, Len(t) - 1))
    ELSE t

Strip(t) == RStrip(LStrip(t))

StartsWith(t, p) == Len(p) <= Len(t) /\ SubSeq(t, 1, Len(p)) = p

Contains(t, w) ==
    \E i \in 1..(Len(t) - Len(w) + 1) : SubSeq(t, i, i + Len(w) - 1) = w

\* ---------------------------------------------------------- configuration
RESUME_PHRASES == << <<"s", "e", "e", "k">> >>
VACANCY_PHRASES == << <<"s", "e">>, <<"h", "i", "r", "e">> >>
BANNED_WORDS == << <<"x", "x">> >>
RESUME_HASHTAG == "#resume"
VACANCY_HASHTAG == "#vacancy"

\* ------------------------------------------------------- pure validators
\* variant: the banned words are looked for in the text as typed
check_banned_words_as_typed(text) ==
    \E k \in 1..Len(BANNED_WORDS) : Contains(text, BANNED_WORDS[k])

check_banned_words(text) ==
    LET text_lower == LowerSeq(text)
    IN  \E k \in 1..Len(BANNED_WORDS) : Contains(text_lower, BANNED_WORDS[k])

NoType == "None"

\* variant: the phrase may occur anywhere in the text ("in" for startswith)
validate_ad_start_anywhere(text) ==
    LET text_lower == Strip(LowerSeq(text))
    IN  IF \E k \in 1..Len(RESUME_PHRASES) : Contains(text_lower, RESUME_PHRASES[k])
        THEN "resume"
        ELSE IF \E k \in 1..Len(VACANCY_PHRASES) : Contains(text_lower, VACANCY_PHRASES[k])
             THEN "vacancy"
             ELSE NoType

\* variant: the vacancy list is tried before the resume list
validate_ad_start_vacancy_first(text) ==
    LET text_lower == Strip(LowerSeq(text))
    IN  IF \E k \in 1..Len(VACANCY_PHRASES) : StartsWith(text_lower, VACANCY_PHRASES[k])
        THEN "vacancy"
        ELSE IF \E k \in 1..Len(RESUME_PHRASES) : StartsWith(text_lower, RESUME_PHRASES[k])
             THEN "resume"
             ELSE NoType

validate_ad_start(text) ==
    LET text_lower == Strip(LowerSeq(text))
    IN  IF \E k \in 1..Len(RESUME_PHRASES) : StartsWith(text_lower, RESUME_PHRASES[k])
        THEN "resume"
        ELSE IF \E k \in 1..Len(VACANCY_PHRASES) : StartsWith(text_lower, VACANCY_PHRASES[k])
             THEN "vacancy"
             ELSE NoType

IsDigitOrPlus(c) == c \in Digits \cup {"+"}

AllDigits(s, from) == \A i \in from..Len(s) : s[i] \in Digits

PhonePatternMatches(cleaned) ==
    \/ Len(cleaned) = 12 /\ cleaned[1] = "+" /\ cleaned[2] = "7" /\ AllDigits(cleaned, 3)
    \/ Len(cleaned) = 11 /\ cleaned[1] = "8" /\ AllDigits(cleaned, 2)
    \/ Len(cleaned) = 11 /\ cleaned[1] = "7" /\ AllDigits(cleaned, 2)
    \/ Len(cleaned) = 10 /\ AllDigits(cleaned, 1)
    \/ Len(cleaned) \in 12..16 /\ cleaned[1] = "+" /\ AllDigits(cleaned, 2)

validate_phone_number(text) ==
    LET cleaned == SelectSeq(text, IsDigitOrPlus)
    IN  IF PhonePatternMatches(cleaned)
        THEN IF cleaned[1] = "8" THEN <<"+", "7">> \o Tail(cleaned)
             ELSE IF cleaned[1] = "7" THEN <<"+">> \o cleaned
             ELSE IF cleaned[1] = "9" THEN <<"+", "7">> \o cleaned
             ELSE cleaned
        ELSE NoPhone

contact_phone(phone_number) ==
    IF StartsWith(phone_number, <<"+">>) THEN phone_number ELSE <<"+">> \o phone_number

ContactLine == <<"\n", "\n", "contact: ">>

final_text_of(ad_text, phone) == ad_text \o ContactLine \o phone

\* variant: the channel post is built from the draft, not from final_text
post_text_of_no_contact(ad_text, phone, hashtag) ==
    ad_text \o <<"\n", "\n", hashtag>>

post_text_of(ad_text, phone, hashtag) ==
    final_text_of(ad_text, phone) \o <<"\n", "\n", hashtag>>

hashtag_of(ad_type) == IF ad_type = "resume" THEN RESUME_HASHTAG ELSE VACANCY_HASHTAG

\* ------------------------------------------------------------- inputs
\* chat member statuses the transport reports
MemberStatuses == {"member", "administrator", "creator"}
ChatMemberStatus == MemberStatuses \cup {"restricted", "left", "kicked"}
\* outcome of bot.get_chat_member: a status, or the call raises
GateOutcomes == ChatMemberStatus \cup {"error"}

P_plus7 == <<"+", "7", "9", "9", "9", "1", "2", "3", "4", "5", "6", "7">>
P_8 == <<"8", "9", "9", "9", "1", "2", "3", "4", "5", "6", "7">>
P_7 == <<"7", "9", "9", "9", "1", "2", "3", "4", "5", "6", "7">>
P_10 == <<"9", "9", "9", "1", "2", "3", "4", "5", "6", "7">>
P_fmt == <<"8", " ", "(", "9", "9", "9", ")", " ", "1", "2", "3", "-", "4", "5", "-", "6", "7">>
P_intl == <<"+", "3", "8", "0", "5", "0", "1", "2", "3", "4", "5", "6", "7">>
P_city == <<"4", "9", "5", "1", "2", "3", "4", "5", "6", "7">>
P_short == <<"1", "2", "3", "4", "5">>

T_resume == <<"S", "e", "e", "k", " ", "j", "o", "b">>
T_vacancy == <<" ", "H", "i", "r", "e", " ">>
T_sell == <<"s", "e", "l", "l">>
T_banned == <<"s", "e", "e", "k", " ", "X", "x">>
T_plain == <<"j", "o", "b">>
T_late == <<"a", " ", "s", "e", "e", "k">>
T_command == <<"/", "n", "e", "w">>

PhoneTexts == {P_plus7, P_8, P_fmt, P_10, P_intl, P_city, P_short}
AdTexts == {T_resume, T_vacancy, T_sell, T_banned, T_plain, T_late}
\* message.text of an inbound text message
Texts == PhoneTexts \cup AdTexts \cup {T_command}
\* message.contact.phone_number of a shared contact
ContactNumbers == {P_7, P_plus7, P_8, P_short}
MediaKinds == {"photo", "video_note"}
AdMediaKinds == {"photo"}
\* message.text of the operator's broadcast message (NoText: a message without text)
BroadcastTexts == {"news", NoText}

\* ------------------------------------------------------------ database.py
HasUser(tg_id) == \E i \in 1..Len(users) : users[i].tg_id = tg_id

\* variant: INSERT OR REPLACE, an existing row is replaced by a fresh one
add_user_replace(us, tg_id) ==
    IF \E i \in 1..Len(us) : us[i].tg_id = tg_id
    THEN [i \in 1..Len(us) |->
            IF us[i].tg_id = tg_id
            THEN [tg_id |-> tg_id, is_subscribed |-> TRUE, is_blocked |-> FALSE]
            ELSE us[i]]
    ELSE Append(us, [tg_id |-> tg_id, is_subscribed |-> TRUE, is_blocked |-> FALSE])

add_user(us, tg_id) ==
    IF \E i \in 1..Len(us) : us[i].tg_id = tg_id
    THEN us
    ELSE Append(us, [tg_id |-> tg_id, is_subscribed |-> TRUE, is_blocked |-> FALSE])

\* variant: a user who is not subscribed is flagged as blocked as well
update_user_subscription_flags_blocked(us, tg_id, is_subscribed) ==
    [i \in 1..Len(us) |->
        IF us[i].tg_id = tg_id
        THEN [us[i] EXCEPT !.is_subscribed = is_subscribed,
                           !.is_blocked = ~is_subscribed]
        ELSE us[i]]

update_user_subscription(us, tg_id, is_subscribed) ==
    [i \in 1..Len(us) |->
        IF us[i].tg_id = tg_id
        THEN [us[i] EXCEPT !.is_subscribed = is_subscribed]
        ELSE us[i]]

\* variant: the UPDATE has no WHERE clause
block_user_all(us, tg_id) ==
    [i \in 1..Len(us) |-> [us[i] EXCEPT !.is_blocked = TRUE]]

block_user(us, tg_id) ==
    [i \in 1..Len(us) |->
        IF us[i].tg_id = tg_id THEN [us[i] EXCEPT !.is_blocked = TRUE] ELSE us[i]]

Reverse(s) == [i \in 1..Len(s) |-> s[Len(s) + 1 - i]]

IsActive(row) == ~row.is_blocked

\* get_all_users(only_active=True): newest first, tg_id of each row
get_all_users_active(us) ==
    LET rows == Reverse(SelectSeq(us, IsActive))
    IN  [i \in 1..Len(rows) |-> rows[i].tg_id]

NoReason == ""
NoMessageId == 0
BannedReason == "banned words"
PhraseReason == "no allowed opening phrase"

\* variant: the INSERT leaves rejection_reason out
add_ad_no_reason(as, tg_id, ad_text, ad_type, status, rejection_reason, message_id) ==
    Append(as, [tg_id |-> tg_id, ad_text |-> ad_text, ad_type |-> ad_type,
                status |-> status, rejection_reason |-> NoReason,
                message_id |-> message_id])

add_ad(as, tg_id, ad_text, ad_type, status, rejection_reason, message_id) ==
    Append(as, [tg_id |-> tg_id, ad_text |-> ad_text, ad_type |-> ad_type,
                status |-> status, rejection_reason |-> rejection_reason,
                message_id |-> message_id])

add_log(ls, log_type, tg_id) == Append(ls, [log_type |-> log_type, tg_id |-> tg_id])

create_broadcast(bs, admin_id, message_text, total_users) ==
    Append(bs, [admin_id |-> admin_id, message_text |-> message_text,
                total_users |-> total_users, sent_count |-> 0, failed_count |-> 0,
                status |-> "in_progress"])

\* variant: the UPDATE binds sent_count to both columns
update_broadcast_stats_mixed(bs, broadcast_id, sent_count, failed_count) ==
    [bs EXCEPT ![broadcast_id].sent_count = sent_count,
               ![broadcast_id].failed_count = sent_count]

update_broadcast_stats(bs, broadcast_id, sent_count, failed_count) ==
    [bs EXCEPT ![broadcast_id].sent_count = sent_count,
               ![broadcast_id].failed_count = failed_count]

complete_broadcast(bs, broadcast_id) ==
    [bs EXCEPT ![broadcast_id].status = "completed"]

\* ------------------------------------------------- record of the last event
Notice(kind, ok) == [kind |-> kind, ok |-> ok]

Event(h, u, txt, path, raised, dbok, notices) ==
    [h |-> h, u |-> u, pre |-> fsm[u], prePhone |-> data[u].phone, txt |-> txt,
     arg |-> "", path |-> path, raised |-> raised, dbok |-> dbok, notices |-> notices,
     ads0 |-> Len(ads), logs0 |-> Len(logs), feed0 |-> Len(feed), id |-> 0,
     member |-> 0, ret |-> <<>>]

NoEvent ==
    [h |-> "none", u |-> 0, pre |-> Idle, prePhone |-> NoPhone, txt |-> <<>>,
     arg |-> "", path |-> "none", raised |-> FALSE, dbok |-> TRUE, notices |-> <<>>,
     ads0 |-> 0, logs0 |-> 0, feed0 |-> 0, id |-> 0, member |-> 0, ret |-> <<>>]

\* ------------------------------------------------------------------- Init
AllRegistered ==
    <<[tg_id |-> 1, is_subscribed |-> TRUE, is_blocked |-> FALSE],
      [tg_id |-> 2, is_subscribed |-> TRUE, is_blocked |-> FALSE],
      [tg_id |-> 3, is_subscribed |-> TRUE, is_blocked |-> FALSE]>>

\* user 2 was marked blocked by an earlier broadcast
OneBlocked == [AllRegistered EXCEPT ![2].is_blocked = TRUE]

Init ==
    /\ fsm = [u \in Users |-> Idle]
    /\ data = [u \in Users |-> EmptyData]
    /\ users \in {<<>>, OneBlocked}
    /\ ads = <<>>
    /\ logs = <<>>
    /\ feed = <<>>
    /\ broadcasts = <<>>
    /\ runs = <<>>
    /\ last = NoEvent
    /\ nEvents = 0
    /\ tasks = <<>>

\* variant: set_state(None) for state.clear(), the data survives
Clear_state_only(u) ==
    /\ fsm' = [fsm EXCEPT ![u] = Idle]
    /\ data' = data

\* variant: the storage is emptied, every user's key with it
Clear_every_key(u) ==
    /\ fsm' = [v \in Users |-> Idle]
    /\ data' = [v \in Users |-> EmptyData]

\* state.clear(): both the state and the data of the user's FSM key
Clear(u) ==
    /\ fsm' = [fsm EXCEPT ![u] = Idle]
    /\ data' = [data EXCEPT ![u] = EmptyData]

\* ------------------------------------------------------ main.py handlers
\* variant: every status the transport reports counts as subscribed
check_subscription_any_status(us, user_id, gate, dbFails) ==
    IF gate = "error" \/ dbFails
    THEN [is_subscribed |-> FALSE, users |-> us]
    ELSE [is_subscribed |-> TRUE,
          users |-> update_user_subscription(us, user_id, TRUE)]

\* variant: a query that raises is recorded as not subscribed
check_subscription_records_failure(us, user_id, gate, dbFails) ==
    IF dbFails
    THEN [is_subscribed |-> FALSE, users |-> us]
    ELSE [is_subscribed |-> gate \in MemberStatuses,
          users |-> update_user_subscription(us, user_id, gate \in MemberStatuses)]

\* check_subscription: the membership the gate reports, and the users table
\* after it; every exception inside is swallowed and reported as not-member
check_subscription(us, user_id, gate, dbFails) ==
    IF gate = "error" \/ dbFails
    THEN [is_subscribed |-> FALSE, users |-> us]
    ELSE [is_subscribed |-> gate \in MemberStatuses,
          users |-> update_user_subscription(us, user_id, gate \in MemberStatuses)]

\* cmd_start: dbf is the persistence call that raises (1 add_user, 2 add_log,
\* 3 update_user_subscription, 0 none); tf the answer() that raises (0 none)
cmd_start(u, gate, dbf, tf) ==
    /\ nEvents < MaxEvents
    /\ fsm[u] # waiting_message
    /\ LET us1 == IF dbf = 1 THEN users ELSE add_user(users, u)
           lg1 == IF dbf \in {1, 2} THEN logs ELSE add_log(logs, "start", u)
           chk == check_subscription(us1, u, gate, dbf = 3)
           aborted == dbf \in {1, 2}
           ev(path, raised, notices) ==
               [Event("cmd_start", u, <<>>, path, raised, dbf = 0, notices)
                   EXCEPT !.arg = gate]
       IN  /\ data' = [data EXCEPT ![u] = EmptyData]
           /\ logs' = lg1
           /\ IF aborted
              THEN /\ users' = us1
                   /\ fsm' = [fsm EXCEPT ![u] = Idle]
                   /\ last' = ev("aborted", TRUE, <<>>)
              ELSE /\ users' = chk.users
                   /\ IF ~chk.is_subscribed
                      THEN /\ fsm' = [fsm EXCEPT ![u] = Idle]
                           /\ last' = ev("not_member", tf = 1,
                                         <<Notice("subscribe", tf # 1)>>)
                      ELSE IF tf = 1
                           THEN /\ fsm' = [fsm EXCEPT ![u] = Idle]
                                /\ last' = ev("member", TRUE, <<Notice("welcome", FALSE)>>)
                           ELSE /\ fsm' = [fsm EXCEPT ![u] = waiting_for_phone]
                                /\ last' = ev("member", tf = 2,
                                              <<Notice("welcome", TRUE),
                                                Notice("phone_prompt", tf # 2)>>)
    /\ nEvents' = nEvents + 1
    /\ UNCHANGED <<ads, feed, broadcasts, runs, tasks>>

cmd_cancel(u, tfail) ==
    /\ nEvents < MaxEvents
    /\ fsm[u] # waiting_message
    /\ IF fsm[u] = Idle
       THEN /\ UNCHANGED <<fsm, data>>
            /\ last' = Event("cmd_cancel", u, <<>>, "nothing", tfail, TRUE,
                             <<Notice("nothing_to_cancel", ~tfail)>>)
       ELSE /\ Clear(u)
            /\ last' = Event("cmd_cancel", u, <<>>, "cancelled", tfail, TRUE,
                             <<Notice("cancelled", ~tfail)>>)
    /\ nEvents' = nEvents + 1
    /\ UNCHANGED <<users, ads, logs, feed, broadcasts, runs, tasks>>

cmd_help(u, tfail) ==
    /\ nEvents < MaxEvents
    /\ fsm[u] # waiting_message
    /\ last' = Event("cmd_help", u, <<>>, "help", tfail, TRUE, <<Notice("help", ~tfail)>>)
    /\ nEvents' = nEvents + 1
    /\ UNCHANGED <<fsm, data, users, ads, logs, feed, broadcasts, runs, tasks>>

cmd_rules(u, tfail) ==
    /\ nEvents < MaxEvents
    /\ fsm[u] # waiting_message
    /\ last' = Event("cmd_rules", u, <<>>, "rules", tfail, TRUE, <<Notice("rules", ~tfail)>>)
    /\ nEvents' = nEvents + 1
    /\ UNCHANGED <<fsm, data, users, ads, logs, feed, broadcasts, runs, tasks>>

\* variant: the state is advanced without the phone being stored
process_contact_state_only(u, phone_number, tfail) ==
    /\ nEvents < MaxEvents
    /\ fsm[u] = waiting_for_phone
    /\ data' = data
    /\ fsm' = [fsm EXCEPT ![u] = waiting_for_ad_text]
    /\ last' = Event("process_contact", u, phone_number, "saved", tfail, TRUE,
                     <<Notice("phone_saved", ~tfail)>>)
    /\ nEvents' = nEvents + 1
    /\ UNCHANGED <<users, ads, logs, feed, broadcasts, runs, tasks>>

process_contact(u, phone_number, tfail) ==
    /\ nEvents < MaxEvents
    /\ fsm[u] = waiting_for_phone
    /\ LET phone == contact_phone(phone_number)
       IN  /\ data' = [data EXCEPT ![u].phone = phone]
           /\ fsm' = [fsm EXCEPT ![u] = waiting_for_ad_text]
           /\ last' = Event("process_contact", u, phone_number, "saved", tfail, TRUE,
                            <<Notice("phone_saved", ~tfail)>>)
    /\ nEvents' = nEvents + 1
    /\ UNCHANGED <<users, ads, logs, feed, broadcasts, runs, tasks>>

\* variant: a text the normalizer rejects is stored as typed
process_phone_text_stores_any(u, text, tfail) ==
    /\ nEvents < MaxEvents
    /\ fsm[u] = waiting_for_phone
    /\ LET phone == validate_phone_number(text)
       IN  IF StartsWith(text, <<"/">>)
           THEN /\ UNCHANGED <<fsm, data>>
                /\ last' = Event("process_phone_text", u, text, "command", FALSE, TRUE, <<>>)
           ELSE /\ data' = [data EXCEPT ![u].phone = IF phone = NoPhone THEN text ELSE phone]
                /\ fsm' = [fsm EXCEPT ![u] = waiting_for_ad_text]
                /\ last' = Event("process_phone_text", u, text, "saved", tfail,
                                 TRUE, <<Notice("phone_saved", ~tfail)>>)
    /\ nEvents' = nEvents + 1
    /\ UNCHANGED <<users, ads, logs, feed, broadcasts, runs, tasks>>

process_phone_text(u, text, tfail) ==
    /\ nEvents < MaxEvents
    /\ fsm[u] = waiting_for_phone
    /\ LET phone == validate_phone_number(text)
       IN  IF StartsWith(text, <<"/">>)
           THEN /\ UNCHANGED <<fsm, data>>
                /\ last' = Event("process_phone_text", u, text, "command", FALSE, TRUE, <<>>)
           ELSE IF phone = NoPhone
                THEN /\ UNCHANGED <<fsm, data>>
                     /\ last' = Event("process_phone_text", u, text, "invalid", tfail,
                                      TRUE, <<Notice("bad_phone", ~tfail)>>)
                ELSE /\ data' = [data EXCEPT ![u].phone = phone]
                     /\ fsm' = [fsm EXCEPT ![u] = waiting_for_ad_text]
                     /\ last' = Event("process_phone_text", u, text, "saved", tfail,
                                      TRUE, <<Notice("phone_saved", ~tfail)>>)
    /\ nEvents' = nEvents + 1
    /\ UNCHANGED <<users, ads, logs, feed, broadcasts, runs, tasks>>

\* variant: the handler ends the session after its answer
handle_media_in_ad_clears(u, kind, tfail) ==
    /\ nEvents < MaxEvents
    /\ fsm[u] = waiting_for_ad_text
    /\ kind \in AdMediaKinds
    /\ last' = Event("handle_media_in_ad", u, <<>>, kind, tfail, TRUE,
                     <<Notice("text_only", ~tfail)>>)
    /\ Clear(u)
    /\ nEvents' = nEvents + 1
    /\ UNCHANGED <<users, ads, logs, feed, broadcasts, runs, tasks>>

handle_media_in_ad(u, kind, tfail) ==
    /\ nEvents < MaxEvents
    /\ fsm[u] = waiting_for_ad_text
    /\ kind \in AdMediaKinds
    /\ last' = Event("handle_media_in_ad", u, <<>>, kind, tfail, TRUE,
                     <<Notice("text_only", ~tfail)>>)
    /\ nEvents' = nEvents + 1
    /\ UNCHANGED <<fsm, data, users, ads, logs, feed, broadcasts, runs, tasks>>

handle_media(u, kind, tfail) ==
    /\ nEvents < MaxEvents
    /\ fsm[u] # waiting_message
    /\ ~(fsm[u] = waiting_for_ad_text /\ kind \in AdMediaKinds)
    /\ last' = Event("handle_media", u, <<>>, kind, tfail, TRUE,
                     <<Notice("use_start", ~tfail)>>)
    /\ nEvents' = nEvents + 1
    /\ UNCHANGED <<fsm, data, users, ads, logs, feed, broadcasts, runs, tasks>>

handle_text_outside_state(u, text, tfail) ==
    /\ nEvents < MaxEvents
    /\ fsm[u] \in {Idle, confirm_broadcast_state}
    /\ last' = Event("handle_text_outside_state", u, text,
                     IF StartsWith(text, <<"/">>) THEN "command" ELSE "text", tfail, TRUE,
                     <<Notice(IF StartsWith(text, <<"/">>) THEN "unknown_command"
                              ELSE "how_to", ~tfail)>>)
    /\ nEvents' = nEvents + 1
    /\ UNCHANGED <<fsm, data, users, ads, logs, feed, broadcasts, runs, tasks>>

\* variant: the rejection notice is sent before add_ad and add_log
reject_ad_notify_first(u, text, reason, kind, dbf, tf) ==
    LET ad_text == Strip(text)
        phone == data[u].phone
        notifyFail == tf = 1
        adFail == ~notifyFail /\ (dbf = 1 \/ ~HasUser(u))
        logFail == ~notifyFail /\ ~adFail /\ dbf = 2
        raised == adFail \/ logFail \/ notifyFail
    IN  /\ ads' = IF notifyFail \/ adFail THEN ads
                  ELSE add_ad(ads, u, final_text_of(ad_text, phone), "unknown",
                              "rejected", reason, NoMessageId)
        /\ logs' = IF notifyFail \/ adFail \/ logFail THEN logs
                   ELSE add_log(logs, "ad_rejected", u)
        /\ feed' = feed
        /\ IF raised THEN UNCHANGED <<fsm, data>> ELSE Clear(u)
        /\ last' = Event("process_ad_text", u, text, kind, raised, ~(adFail \/ logFail),
                         <<Notice(kind, ~notifyFail)>>)

\* process_ad_text, rejection branch (banned words, or no opening phrase):
\* add_ad, add_log, answer, state.clear in this order, each call may raise.
\* dbf: 1 add_ad raises, 2 add_log raises; tf = 1: the answer() raises
reject_ad(u, text, reason, kind, dbf, tf) ==
    LET ad_text == Strip(text)
        phone == data[u].phone
        adFail == dbf = 1 \/ ~HasUser(u)
        logFail == ~adFail /\ dbf = 2
        notifyFail == ~adFail /\ ~logFail /\ tf = 1
        raised == adFail \/ logFail \/ notifyFail
    IN  /\ ads' = IF adFail THEN ads
                  ELSE add_ad(ads, u, final_text_of(ad_text, phone), "unknown",
                              "rejected", reason, NoMessageId)
        /\ logs' = IF adFail \/ logFail THEN logs ELSE add_log(logs, "ad_rejected", u)
        /\ feed' = feed
        /\ IF raised THEN UNCHANGED <<fsm, data>> ELSE Clear(u)
        /\ last' = Event("process_ad_text", u, text, kind, raised, ~(adFail \/ logFail),
                         IF adFail \/ logFail THEN <<>>
                         ELSE <<Notice(kind, ~notifyFail)>>)

\* variant: the Posting is persisted and logged before the channel send
publish_ad_persist_first(u, text, ad_type, dbf, tf, tf2) ==
    LET ad_text == Strip(text)
        phone == data[u].phone
        hashtag == hashtag_of(ad_type)
        message_id == Len(feed) + 1
        adFail == dbf = 1 \/ ~HasUser(u)
        logFail == ~adFail /\ dbf = 2
        sendFail == ~adFail /\ ~logFail /\ tf = 1
        notifyFail == ~adFail /\ ~logFail /\ ~sendFail /\ tf = 2
        caught == sendFail \/ adFail \/ logFail \/ notifyFail
        raised == caught /\ tf2
        okNotices == IF sendFail \/ adFail \/ logFail THEN <<>>
                     ELSE <<Notice("published", ~notifyFail)>>
    IN  /\ ads' = IF adFail THEN ads
                  ELSE add_ad(ads, u, final_text_of(ad_text, phone), ad_type,
                              "published", NoReason, message_id)
        /\ logs' = IF adFail \/ logFail THEN logs ELSE add_log(logs, "ad_published", u)
        /\ feed' = IF adFail \/ logFail \/ sendFail THEN feed
                   ELSE Append(feed, [text |-> post_text_of(ad_text, phone, hashtag),
                                      message_id |-> message_id])
        /\ IF raised THEN UNCHANGED <<fsm, data>> ELSE Clear(u)
        /\ last' = Event("process_ad_text", u, text, "accepted", raised,
                         ~(adFail \/ logFail),
                         IF caught
                         THEN okNotices \o <<Notice("publish_error", ~tf2)>>
                         ELSE okNotices)

\* process_ad_text, publication branch: the try block sends to the channel,
\* persists, logs, notifies and clears; the except block notifies and clears.
\* tf: 1 the channel send raises, 2 the confirmation raises; tf2: the error
\* notice of the except block raises
publish_ad(u, text, ad_type, dbf, tf, tf2) ==
    LET ad_text == Strip(text)
        phone == data[u].phone
        hashtag == hashtag_of(ad_type)
        message_id == Len(feed) + 1
        sendFail == tf = 1
        adFail == ~sendFail /\ (dbf = 1 \/ ~HasUser(u))
        logFail == ~sendFail /\ ~adFail /\ dbf = 2
        notifyFail == ~sendFail /\ ~adFail /\ ~logFail /\ tf = 2
        caught == sendFail \/ adFail \/ logFail \/ notifyFail
        raised == caught /\ tf2
        okNotices == IF sendFail \/ adFail \/ logFail THEN <<>>
                     ELSE <<Notice("published", ~notifyFail)>>
    IN  /\ feed' = IF sendFail THEN feed
                   ELSE Append(feed, [text |-> post_text_of(ad_text, phone, hashtag),
                                      message_id |-> message_id])
        /\ ads' = IF sendFail \/ adFail THEN ads
                  ELSE add_ad(ads, u, final_text_of(ad_text, phone), ad_type,
                              "published", NoReason, message_id)
        /\ logs' = IF sendFail \/ adFail \/ logFail THEN logs
                   ELSE add_log(logs, "ad_published", u)
        /\ IF raised THEN UNCHANGED <<fsm, data>> ELSE Clear(u)
        /\ last' = Event("process_ad_text", u, text, "accepted", raised,
                         ~(adFail \/ logFail),
                         IF caught
                         THEN okNotices \o <<Notice("publish_error", ~tf2)>>
                         ELSE okNotices)

\* variant: the opening phrase is checked before the banned words
ad_decision_phrase_first(ad_text) ==
    IF validate_ad_start(ad_text) # NoType THEN "accepted"
    ELSE IF check_banned_words(ad_text) THEN "banned"
    ELSE "no_phrase"

\* the order of the two checks of process_ad_text on the stripped text
ad_decision(ad_text) ==
    IF check_banned_words(ad_text) THEN "banned"
    ELSE IF validate_ad_start(ad_text) = NoType THEN "no_phrase"
    ELSE "accepted"

\* variant: the handler does not look for a leading '/'
process_ad_text_no_command_check(u, text, dbf, tf, tf2) ==
    /\ nEvents < MaxEvents
    /\ fsm[u] = waiting_for_ad_text
    /\ LET phone == data[u].phone
           ad_text == Strip(text)
           ad_type == validate_ad_start(ad_text)
       IN  IF phone = NoPhone
           THEN /\ IF tf = 1 THEN UNCHANGED <<fsm, data>> ELSE Clear(u)
                /\ UNCHANGED <<ads, logs, feed>>
                /\ last' = Event("process_ad_text", u, text, "no_phone", tf = 1,
                                 TRUE, <<Notice("no_phone", tf # 1)>>)
           ELSE IF ad_decision(ad_text) = "banned"
                THEN reject_ad(u, text, BannedReason, "banned", dbf, tf)
                ELSE IF ad_decision(ad_text) = "no_phrase"
                     THEN reject_ad(u, text, PhraseReason, "no_phrase", dbf, tf)
                     ELSE publish_ad(u, text, ad_type, dbf, tf, tf2)
    /\ nEvents' = nEvents + 1
    /\ UNCHANGED <<users, broadcasts, runs, tasks>>

process_ad_text(u, text, dbf, tf, tf2) ==
    /\ nEvents < MaxEvents
    /\ fsm[u] = waiting_for_ad_text
    /\ LET phone == data[u].phone
           ad_text == Strip(text)
           ad_type == validate_ad_start(ad_text)
       IN  IF StartsWith(text, <<"/">>)
           THEN /\ UNCHANGED <<fsm, data, ads, logs, feed>>
                /\ last' = Event("process_ad_text", u, text, "command", FALSE, TRUE, <<>>)
           ELSE IF phone = NoPhone
                THEN /\ IF tf = 1 THEN UNCHANGED <<fsm, data>> ELSE Clear(u)
                     /\ UNCHANGED <<ads, logs, feed>>
                     /\ last' = Event("process_ad_text", u, text, "no_phone", tf = 1,
                                      TRUE, <<Notice("no_phone", tf # 1)>>)
                ELSE IF ad_decision(ad_text) = "banned"
                     THEN reject_ad(u, text, BannedReason, "banned", dbf, tf)
                     ELSE IF ad_decision(ad_text) = "no_phrase"
                          THEN reject_ad(u, text, PhraseReason, "no_phrase", dbf, tf)
                          ELSE publish_ad(u, text, ad_type, dbf, tf, tf2)
    /\ nEvents' = nEvents + 1
    /\ UNCHANGED <<users, broadcasts, runs, tasks>>

\* ChatMemberUpdated events of a channel: <<old status, new status>>
NotMemberStatuses == {"left", "kicked"}
MemberTransitions ==
    {<<"left", "member">>, <<"kicked", "administrator">>, <<"member", "left">>,
     <<"creator", "kicked">>, <<"restricted", "member">>, <<"member", "restricted">>,
     <<"member", "administrator">>}

\* variant: the chat of the update is not looked at
track_channel_member_updates_any_chat(user_id, member, tracked, old_status, new_status, tfail, dbf) ==
    /\ nEvents < MaxEvents
    /\ LET was_not_member == old_status \in NotMemberStatuses
           is_now_member == new_status \in MemberStatuses
           was_member == old_status \in MemberStatuses
           is_not_member == new_status \in NotMemberStatuses
           ev(path, dbok, notices) ==
               [Event("track_channel_member_updates", user_id,
                      <<old_status, new_status>>, path, FALSE, dbok, notices)
                   EXCEPT !.member = member,
                          !.arg = IF tracked THEN "channel" ELSE "other"]
       IN  IF FALSE
           THEN /\ UNCHANGED <<users, logs>>
                /\ last' = ev("other_chat", TRUE, <<>>)
           ELSE IF was_not_member /\ is_now_member
                THEN /\ users' = IF tfail \/ dbf = 1 THEN users
                                 ELSE update_user_subscription(users, user_id, TRUE)
                     /\ UNCHANGED logs
                     /\ last' = ev("joined", tfail \/ dbf # 1,
                                   <<Notice("onboarding", ~tfail)>>)
                ELSE IF was_member /\ is_not_member
                     THEN /\ users' = IF tfail \/ dbf = 1 THEN users
                                      ELSE update_user_subscription(users, user_id, FALSE)
                          /\ logs' = IF tfail \/ dbf # 0 THEN logs
                                     ELSE add_log(logs, "unsubscribe", user_id)
                          /\ last' = ev("left", tfail \/ dbf = 0,
                                        <<Notice("churn_question", ~tfail)>>)
                     ELSE /\ UNCHANGED <<users, logs>>
                          /\ last' = ev("ignored", TRUE, <<>>)
    /\ nEvents' = nEvents + 1
    /\ UNCHANGED <<fsm, data, ads, feed, broadcasts, runs, tasks>>

\* chat_member update: user_id is update.from_user.id, member the user of
\* update.new_chat_member, tracked whether update.chat.id is the channel's;
\* tfail: bot.send_message raises; dbf the persistence call that raises
\* (1 update_user_subscription, 2 add_log, 0 none).  Both try blocks swallow
\* the exception.
track_channel_member_updates(user_id, member, tracked, old_status, new_status, tfail, dbf) ==
    /\ nEvents < MaxEvents
    /\ LET was_not_member == old_status \in NotMemberStatuses
           is_now_member == new_status \in MemberStatuses
           was_member == old_status \in MemberStatuses
           is_not_member == new_status \in NotMemberStatuses
           ev(path, dbok, notices) ==
               [Event("track_channel_member_updates", user_id,
                      <<old_status, new_status>>, path, FALSE, dbok, notices)
                   EXCEPT !.member = member,
                          !.arg = IF tracked THEN "channel" ELSE "other"]
       IN  IF ~tracked
           THEN /\ UNCHANGED <<users, logs>>
                /\ last' = ev("other_chat", TRUE, <<>>)
           ELSE IF was_not_member /\ is_now_member
                THEN /\ users' = IF tfail \/ dbf = 1 THEN users
                                 ELSE update_user_subscription(users, user_id, TRUE)
                     /\ UNCHANGED logs
                     /\ last' = ev("joined", tfail \/ dbf # 1,
                                   <<Notice("onboarding", ~tfail)>>)
                ELSE IF was_member /\ is_not_member
                     THEN /\ users' = IF tfail \/ dbf = 1 THEN users
                                      ELSE update_user_subscription(users, user_id, FALSE)
                          /\ logs' = IF tfail \/ dbf # 0 THEN logs
                                     ELSE add_log(logs, "unsubscribe", user_id)
                          /\ last' = ev("left", tfail \/ dbf = 0,
                                        <<Notice("churn_question", ~tfail)>>)
                     ELSE /\ UNCHANGED <<users, logs>>
                          /\ last' = ev("ignored", TRUE, <<>>)
    /\ nEvents' = nEvents + 1
    /\ UNCHANGED <<fsm, data, ads, feed, broadcasts, runs, tasks>>

\* ------------------------------------------------- admin_panel.py handlers
cmd_admin(u, tfail) ==
    /\ nEvents < MaxEvents
    /\ last' = Event("cmd_admin", u, <<>>, IF is_admin(u) THEN "menu" ELSE "denied",
                     tfail, TRUE,
                     <<Notice(IF is_admin(u) THEN "admin_menu" ELSE "no_access", ~tfail)>>)
    /\ nEvents' = nEvents + 1
    /\ UNCHANGED <<fsm, data, users, ads, logs, feed, broadcasts, runs, tasks>>

\* callback admin_broadcast; tfail: callback.message.edit_text raises
start_broadcast(u, tfail) ==
    /\ nEvents < MaxEvents
    /\ IF ~is_admin(u)
       THEN /\ UNCHANGED fsm
            /\ last' = Event("start_broadcast", u, <<>>, "denied", FALSE, TRUE, <<>>)
       ELSE IF tfail
            THEN /\ UNCHANGED fsm
                 /\ last' = Event("start_broadcast", u, <<>>, "compose", TRUE, TRUE, <<>>)
            ELSE /\ fsm' = [fsm EXCEPT ![u] = waiting_message]
                 /\ last' = Event("start_broadcast", u, <<>>, "compose", FALSE, TRUE, <<>>)
    /\ nEvents' = nEvents + 1
    /\ UNCHANGED <<data, users, ads, logs, feed, broadcasts, runs, tasks>>

\* any message of a user in waiting_message (the admin router comes first);
\* btext is message.text; tfail: the confirmation prompt raises
receive_broadcast_message(u, btext, tfail) ==
    /\ nEvents < MaxEvents
    /\ fsm[u] = waiting_message
    /\ IF ~is_admin(u)
       THEN /\ UNCHANGED <<fsm, data>>
            /\ last' = Event("receive_broadcast_message", u, <<>>, "denied", FALSE,
                             TRUE, <<>>)
       ELSE /\ data' = [data EXCEPT ![u].broadcast_text = btext]
            /\ fsm' = [fsm EXCEPT ![u] = IF tfail THEN waiting_message
                                         ELSE confirm_broadcast_state]
            /\ last' = Event("receive_broadcast_message", u, <<>>, "received", tfail,
                             TRUE, <<>>)
    /\ nEvents' = nEvents + 1
    /\ UNCHANGED <<users, ads, logs, feed, broadcasts, runs, tasks>>

\* callback broadcast_cancel in confirm_broadcast; tfail: edit_text raises
cancel_broadcast(u, tfail) ==
    /\ nEvents < MaxEvents
    /\ fsm[u] = confirm_broadcast_state
    /\ IF tfail THEN UNCHANGED <<fsm, data>> ELSE Clear(u)
    /\ last' = Event("cancel_broadcast", u, <<>>, "cancelled", tfail, TRUE, <<>>)
    /\ nEvents' = nEvents + 1
    /\ UNCHANGED <<users, ads, logs, feed, broadcasts, runs, tasks>>

\* ------------------------------------------------------- broadcast engine
\* A run is the execution of confirm_broadcast's loop for one broadcasts row:
\* users is the recipient snapshot, i the recipient whose delivery is awaited,
\* sent/failed the local counters, pc the await the handler is suspended at,
\* attempts the send_message calls made so far with what each returned,
\* slept the asyncio.sleep calls that returned,
\* exc the call whose exception ended the handler (NoException: none).
NoException == "none"

NewRun(admin, text, snapshot) ==
    [admin |-> admin, text |-> text, users |-> snapshot, total |-> Len(snapshot),
     i |-> 1, sent |-> 0, failed |-> 0, reports |-> 0, pc |-> "send",
     attempts |-> <<>>, slept |-> 0, exc |-> NoException]

Attempt(tg_id, outcome) == [tg_id |-> tg_id, outcome |-> outcome]

FinalOutcomes == {"ok", "update_fails", "complete_fails", "log_fails", "edit_fails"}

\* the code after the loop: update_broadcast_stats, complete_broadcast,
\* add_log, edit_text, state.clear; fin names the call that raises
Finalize(id, r, fin) ==
    /\ broadcasts' =
          IF fin = "update_fails" THEN broadcasts
          ELSE IF fin = "complete_fails"
               THEN update_broadcast_stats(broadcasts, id, r.sent, r.failed)
               ELSE complete_broadcast(
                        update_broadcast_stats(broadcasts, id, r.sent, r.failed), id)
    /\ logs' = IF fin \in {"ok", "edit_fails"}
               THEN add_log(logs, "broadcast", r.admin) ELSE logs
    /\ IF fin = "ok" THEN Clear(r.admin) ELSE UNCHANGED <<fsm, data>>
    /\ runs' = [runs EXCEPT ![id] =
                  [r EXCEPT !.pc = IF fin = "ok" THEN "done" ELSE "aborted",
                            !.exc = IF fin = "ok" THEN NoException ELSE fin]]

\* variant: a recipient whose delivery failed is tried a second time
Advance_retry_once(id, r, fin) ==
    LET n == Len(r.attempts)
        retry == /\ n > 0
                 /\ r.attempts[n].outcome # "ok"
                 /\ (n = 1 \/ r.attempts[n - 1].tg_id # r.attempts[n].tg_id)
    IN  IF retry
        THEN /\ runs' = [runs EXCEPT ![id] = [r EXCEPT !.pc = "send"]]
             /\ UNCHANGED <<broadcasts, logs, fsm, data>>
        ELSE IF r.i < r.total
             THEN /\ runs' = [runs EXCEPT ![id] = [r EXCEPT !.i = r.i + 1, !.pc = "send"]]
                  /\ UNCHANGED <<broadcasts, logs, fsm, data>>
             ELSE Finalize(id, r, fin)

\* the loop moves on to the next recipient, or leaves the loop
Advance(id, r, fin) ==
    IF r.i < r.total
    THEN /\ runs' = [runs EXCEPT ![id] = [r EXCEPT !.i = r.i + 1, !.pc = "send"]]
         /\ UNCHANGED <<broadcasts, logs, fsm, data>>
    ELSE Finalize(id, r, fin)

ConfirmOutcomes == {"ok", "list_fails", "create_fails", "edit_fails"}

\* callback broadcast_confirm in confirm_broadcast, up to the first delivery
confirm_broadcast(u, cf) ==
    /\ nEvents < MaxEvents
    /\ Len(broadcasts) < MaxBroadcasts
    /\ fsm[u] = confirm_broadcast_state
    /\ LET broadcast_text == data[u].broadcast_text
           snapshot == get_all_users_active(users)
           total_users == Len(snapshot)
       IN  IF ~is_admin(u)
           THEN /\ UNCHANGED <<fsm, data, broadcasts, runs>>
                /\ last' = Event("confirm_broadcast", u, <<>>, "denied", FALSE, TRUE, <<>>)
           ELSE IF broadcast_text = NoText
                THEN /\ IF cf = "edit_fails" THEN UNCHANGED <<fsm, data>> ELSE Clear(u)
                     /\ UNCHANGED <<broadcasts, runs>>
                     /\ last' = Event("confirm_broadcast", u, <<>>, "no_text",
                                      cf = "edit_fails", TRUE, <<>>)
                ELSE IF cf = "list_fails"
                     THEN /\ UNCHANGED <<fsm, data, broadcasts, runs>>
                          /\ last' = Event("confirm_broadcast", u, <<>>, "aborted",
                                           TRUE, FALSE, <<>>)
                     ELSE IF total_users = 0
                          THEN /\ IF cf = "edit_fails" THEN UNCHANGED <<fsm, data>>
                                  ELSE Clear(u)
                               /\ UNCHANGED <<broadcasts, runs>>
                               /\ last' = Event("confirm_broadcast", u, <<>>,
                                                "no_users", cf = "edit_fails", TRUE, <<>>)
                          ELSE IF cf = "create_fails"
                               THEN /\ UNCHANGED <<fsm, data, broadcasts, runs>>
                                    /\ last' = Event("confirm_broadcast", u, <<>>,
                                                     "aborted", TRUE, FALSE, <<>>)
                               ELSE /\ broadcasts' = create_broadcast(broadcasts, u,
                                                        broadcast_text, total_users)
                                    /\ runs' = Append(runs,
                                          [NewRun(u, broadcast_text, snapshot)
                                             EXCEPT !.pc = IF cf = "edit_fails"
                                                           THEN "aborted" ELSE "send",
                                                    !.exc = IF cf = "edit_fails"
                                                            THEN "start_notice_fails"
                                                            ELSE NoException])
                                    /\ UNCHANGED <<fsm, data>>
                                    /\ last' = Event("confirm_broadcast", u, <<>>,
                                                     "started", cf = "edit_fails",
                                                     TRUE, <<>>)
    /\ nEvents' = nEvents + 1
    /\ UNCHANGED <<users, ads, logs, feed, tasks>>

SendOutcomes == {"ok", "blocked", "error"}
ProgressInterval == 10

\* variant: the progress report has no try of its own, so an edit_text that
\* raises lands in the except block of the delivery
broadcast_send_push_unguarded(id, outcome, blockFails, pf, fin) ==
    /\ id \in 1..Len(runs)
    /\ runs[id].pc = "send"
    /\ LET r == runs[id]
           tg_id == r.users[r.i]
           tried == Append(r.attempts, Attempt(tg_id, outcome))
           due == (r.sent + 1) % ProgressInterval = 0
           ev(path, raised, dbok) ==
               [Event("broadcast_send", r.admin, <<>>, path, raised, dbok, <<>>)
                   EXCEPT !.id = id]
       IN  IF outcome = "ok" /\ due /\ pf
           THEN /\ Advance(id, [r EXCEPT !.sent = r.sent + 1,
                                         !.failed = r.failed + 1,
                                         !.reports = r.reports + 1,
                                         !.attempts = tried], fin)
                /\ UNCHANGED users
                /\ last' = [ev("sent", fin # "ok" /\ r.i = r.total, TRUE)
                              EXCEPT !.notices = <<Notice("progress", FALSE)>>,
                                     !.arg = IF r.i = r.total THEN fin ELSE ""]
           ELSE IF outcome = "ok"
           THEN /\ runs' = [runs EXCEPT ![id] =
                              [r EXCEPT !.sent = r.sent + 1,
                                        !.reports = IF due THEN r.reports + 1
                                                    ELSE r.reports,
                                        !.attempts = tried,
                                        !.pc = "sleep"]]
                /\ UNCHANGED <<users, broadcasts, logs, fsm, data>>
                /\ last' = [ev("sent", FALSE, TRUE)
                              EXCEPT !.notices = IF due THEN <<Notice("progress", ~pf)>>
                                                 ELSE <<>>]
           ELSE IF outcome = "blocked" /\ blockFails
                THEN /\ runs' = [runs EXCEPT ![id] =
                                   [r EXCEPT !.failed = r.failed + 1,
                                             !.attempts = tried,
                                             !.pc = "aborted",
                                             !.exc = "block_user_fails"]]
                     /\ UNCHANGED <<users, broadcasts, logs, fsm, data>>
                     /\ last' = ev("aborted", TRUE, FALSE)
                ELSE /\ users' = IF outcome = "blocked" THEN block_user(users, tg_id)
                                 ELSE users
                     /\ Advance(id, [r EXCEPT !.failed = r.failed + 1,
                                              !.attempts = tried], fin)
                     /\ last' = [ev(outcome, fin # "ok" /\ r.i = r.total, TRUE)
                                   EXCEPT !.arg = IF r.i = r.total THEN fin ELSE ""]
    /\ UNCHANGED <<ads, feed, nEvents, tasks>>

\* the awaited send_message to recipient i returns or raises; on an error the
\* except block runs and the loop goes straight on.  blockFails: block_user
\* raises; pf: the edit_text of a progress report raises (caught on the spot)
broadcast_send(id, outcome, blockFails, pf, fin) ==
    /\ id \in 1..Len(runs)
    /\ runs[id].pc = "send"
    /\ LET r == runs[id]
           tg_id == r.users[r.i]
           tried == Append(r.attempts, Attempt(tg_id, outcome))
           due == (r.sent + 1) % ProgressInterval = 0
           ev(path, raised, dbok) ==
               [Event("broadcast_send", r.admin, <<>>, path, raised, dbok, <<>>)
                   EXCEPT !.id = id]
       IN  IF outcome = "ok"
           THEN /\ runs' = [runs EXCEPT ![id] =
                              [r EXCEPT !.sent = r.sent + 1,
                                        !.reports = IF due THEN r.reports + 1
                                                    ELSE r.reports,
                                        !.attempts = tried,
                                        !.pc = "sleep"]]
                /\ UNCHANGED <<users, broadcasts, logs, fsm, data>>
                /\ last' = [ev("sent", FALSE, TRUE)
                              EXCEPT !.notices = IF due THEN <<Notice("progress", ~pf)>>
                                                 ELSE <<>>]
           ELSE IF outcome = "blocked" /\ blockFails
                THEN /\ runs' = [runs EXCEPT ![id] =
                                   [r EXCEPT !.failed = r.failed + 1,
                                             !.attempts = tried,
                                             !.pc = "aborted",
                                             !.exc = "block_user_fails"]]
                     /\ UNCHANGED <<users, broadcasts, logs, fsm, data>>
                     /\ last' = ev("aborted", TRUE, FALSE)
                ELSE /\ users' = IF outcome = "blocked" THEN block_user(users, tg_id)
                                 ELSE users
                     /\ Advance(id, [r EXCEPT !.failed = r.failed + 1,
                                              !.attempts = tried], fin)
                     /\ last' = [ev(outcome, fin # "ok" /\ r.i = r.total, TRUE)
                                   EXCEPT !.arg = IF r.i = r.total THEN fin ELSE ""]
    /\ UNCHANGED <<ads, feed, nEvents, tasks>>

\* asyncio.sleep after a successful delivery returns
broadcast_wake(id, fin) ==
    /\ id \in 1..Len(runs)
    /\ runs[id].pc = "sleep"
    /\ Advance(id, [runs[id] EXCEPT !.slept = runs[id].slept + 1], fin)
    /\ last' = [Event("broadcast_wake", runs[id].admin, <<>>, "woke",
                      fin # "ok" /\ runs[id].i = runs[id].total, TRUE, <<>>)
                  EXCEPT !.id = id,
                         !.arg = IF runs[id].i = runs[id].total THEN fin ELSE ""]
    /\ UNCHANGED <<users, ads, feed, nEvents, tasks>>

\* ------------------------------------------------------------------- Next
Next ==
    \/ \E u \in Actors, gate \in GateOutcomes, dbf \in 0..3, tf \in 0..2 :
          cmd_start(u, gate, dbf, tf)
    \/ \E u \in Actors, tfail \in BOOLEAN : cmd_cancel(u, tfail)
    \/ \E u \in Actors, tfail \in BOOLEAN : cmd_help(u, tfail)
    \/ \E u \in Actors, tfail \in BOOLEAN : cmd_rules(u, tfail)
    \/ \E u \in Actors, n \in ContactNumbers, tfail \in BOOLEAN : process_contact(u, n, tfail)
    \/ \E u \in Actors, t \in Texts, tfail \in BOOLEAN : process_phone_text(u, t, tfail)
    \/ \E u \in Actors, k \in MediaKinds, tfail \in BOOLEAN : handle_media_in_ad(u, k, tfail)
    \/ \E u \in Actors, t \in Texts, dbf \in 0..2, tf \in 0..2, tf2 \in BOOLEAN :
          process_ad_text(u, t, dbf, tf, tf2)
    \/ \E u \in Actors, k \in MediaKinds, tfail \in BOOLEAN : handle_media(u, k, tfail)
    \/ \E u \in Actors, t \in Texts, tfail \in BOOLEAN : handle_text_outside_state(u, t, tfail)
    \/ \E u \in Actors, tfail \in BOOLEAN : cmd_admin(u, tfail)
    \/ \E u \in Actors, tfail \in BOOLEAN : start_broadcast(u, tfail)
    \/ \E u \in Actors, b \in BroadcastTexts, tfail \in BOOLEAN :
          receive_broadcast_message(u, b, tfail)
    \/ \E u \in Actors, tfail \in BOOLEAN : cancel_broadcast(u, tfail)
    \/ \E u \in Actors, cf \in ConfirmOutcomes : confirm_broadcast(u, cf)
    \/ \E id \in 1..MaxBroadcasts, o \in SendOutcomes, bf \in BOOLEAN, pf \in BOOLEAN,
             fin \in FinalOutcomes :
          broadcast_send(id, o, bf, pf, fin)
    \/ \E id \in 1..MaxBroadcasts, fin \in FinalOutcomes : broadcast_wake(id, fin)

Spec == Init /\ [][Next]_vars

\* the chat_member updates of the channel, next to the /start commands that
\* register users and write the same subscription flag
NextMembership ==
    \/ \E u \in Actors, m \in Actors, tracked \in BOOLEAN, tr \in MemberTransitions,
             tfail \in BOOLEAN, dbf \in 0..2 :
          track_channel_member_updates(u, m, tracked, tr[1], tr[2], tfail, dbf)
    \/ \E u \in Actors, gate \in GateOutcomes, dbf \in 0..3, tf \in 0..2 :
          cmd_start(u, gate, dbf, tf)

SpecMembership == Init /\ [][NextMembership]_vars

\* -------------------------------------------- confirmations while a run loops
\* the operator is looking at the confirm button of a typed broadcast; the
\* button can be pressed again while the handler of the first press is
\* suspended in its loop (start_polling handles every update as a task)
InitConfirm ==
    /\ fsm = [u \in Users |-> IF u = 1 THEN confirm_broadcast_state ELSE Idle]
    /\ data = [u \in Users |->
                 IF u = 1 THEN [EmptyData EXCEPT !.broadcast_text = "news"]
                 ELSE EmptyData]
    /\ users = OneBlocked
    /\ ads = <<>>
    /\ logs = <<>>
    /\ feed = <<>>
    /\ broadcasts = <<>>
    /\ runs = <<>>
    /\ last = NoEvent
    /\ nEvents = 0
    /\ tasks = <<>>

NextConfirm ==
    \/ \E u \in Actors, cf \in ConfirmOutcomes : confirm_broadcast(u, cf)
    \/ \E id \in 1..MaxBroadcasts, o \in SendOutcomes : broadcast_send(id, o, FALSE, FALSE, "ok")
    \/ \E id \in 1..MaxBroadcasts : broadcast_wake(id, "ok")

SpecConfirm == InitConfirm /\ [][NextConfirm]_vars

\* ------------------------------------------ users a broadcast has blocked
\* broadcasts from the confirm button, next to the /start commands and the
\* chat_member updates of the users they reach
NextBlocked ==
    \/ NextConfirm
    \/ \E u \in Actors, gate \in GateOutcomes : cmd_start(u, gate, 0, 0)
    \/ \E u \in Actors, tr \in MemberTransitions :
          track_channel_member_updates(u, u, TRUE, tr[1], tr[2], FALSE, 0)

SpecBlocked == InitConfirm /\ [][NextBlocked]_vars

\* ------------------------------------------- ad texts handled as tasks
\* start_polling runs the handler of every update as a task of its own and
\* the dispatcher has no per-user lock, so process_ad_text is split at the
\* awaits that suspend it: the channel send and the answer to the user.
\* tasks holds the executions of process_ad_text: pc the await it is
\* suspended at ("send", "notify") or "done", kind the notice it will send,
\* phone the phone it read from the FSM data when it started.
AdTask(u, text, pc, kind) ==
    [u |-> u, text |-> text, pc |-> pc, kind |-> kind, phone |-> data[u].phone]

\* a session of user 1 that waits for the ad text, phone collected
InitSession ==
    /\ fsm = [u \in Users |-> IF u = 1 THEN waiting_for_ad_text ELSE Idle]
    /\ data = [u \in Users |->
                 IF u = 1 THEN [EmptyData EXCEPT !.phone = P_plus7] ELSE EmptyData]
    /\ users = OneBlocked
    /\ ads = <<>>
    /\ logs = <<>>
    /\ feed = <<>>
    /\ broadcasts = <<>>
    /\ runs = <<>>
    /\ last = NoEvent
    /\ nEvents = 0
    /\ tasks = <<>>

\* process_ad_text from the state filter to its first suspending await;
\* dbf: the persistence call that raises (1 add_ad, 2 add_log, 0 none)
process_ad_text_begin(u, text, dbf) ==
    /\ nEvents < MaxEvents
    /\ fsm[u] = waiting_for_ad_text
    /\ LET phone == data[u].phone
           ad_text == Strip(text)
           decision == ad_decision(ad_text)
           reason == IF decision = "banned" THEN BannedReason ELSE PhraseReason
           adFail == dbf = 1 \/ ~HasUser(u)
           logFail == ~adFail /\ dbf = 2
           ev(path, raised, dbok) ==
               Event("process_ad_text", u, text, path, raised, dbok, <<>>)
       IN  IF StartsWith(text, <<"/">>)
           THEN /\ UNCHANGED <<ads, logs, tasks>>
                /\ last' = ev("command", FALSE, TRUE)
           ELSE IF phone = NoPhone
                THEN /\ UNCHANGED <<ads, logs>>
                     /\ tasks' = Append(tasks, AdTask(u, text, "notify", "no_phone"))
                     /\ last' = ev("no_phone", FALSE, TRUE)
                ELSE IF decision \in {"banned", "no_phrase"}
                     THEN /\ ads' = IF adFail THEN ads
                                    ELSE add_ad(ads, u, final_text_of(ad_text, phone),
                                                "unknown", "rejected", reason, NoMessageId)
                          /\ logs' = IF adFail \/ logFail THEN logs
                                     ELSE add_log(logs, "ad_rejected", u)
                          /\ tasks' = IF adFail \/ logFail THEN tasks
                                      ELSE Append(tasks, AdTask(u, text, "notify", decision))
                          /\ last' = ev(decision, adFail \/ logFail, ~(adFail \/ logFail))
                     ELSE /\ UNCHANGED <<ads, logs>>
                          /\ tasks' = Append(tasks, AdTask(u, text, "send", "published"))
                          /\ last' = ev("accepted", FALSE, TRUE)
    /\ nEvents' = nEvents + 1
    /\ UNCHANGED <<fsm, data, users, feed, broadcasts, runs>>

\* the channel send of task k returns or raises (tfail); on success add_ad and
\* add_log follow; any exception is caught and the task goes on to the
\* failure notice
process_ad_text_send(k, tfail, dbf) ==
    /\ k \in 1..Len(tasks)
    /\ tasks[k].pc = "send"
    /\ LET t == tasks[k]
           ad_text == Strip(t.text)
           ad_type == validate_ad_start(ad_text)
           hashtag == hashtag_of(ad_type)
           message_id == Len(feed) + 1
           adFail == ~tfail /\ (dbf = 1 \/ ~HasUser(t.u))
           logFail == ~tfail /\ ~adFail /\ dbf = 2
           caught == tfail \/ adFail \/ logFail
       IN  /\ feed' = IF tfail THEN feed
                      ELSE Append(feed, [text |-> post_text_of(ad_text, t.phone, hashtag),
                                         message_id |-> message_id])
           /\ ads' = IF tfail \/ adFail THEN ads
                     ELSE add_ad(ads, t.u, final_text_of(ad_text, t.phone), ad_type,
                                 "published", NoReason, message_id)
           /\ logs' = IF caught THEN logs ELSE add_log(logs, "ad_published", t.u)
           /\ tasks' = [tasks EXCEPT ![k].pc = "notify",
                                     ![k].kind = IF caught THEN "publish_error"
                                                 ELSE "published"]
           /\ last' = Event("process_ad_text", t.u, t.text, "accepted", FALSE,
                            ~(adFail \/ logFail), <<>>)
    /\ UNCHANGED <<fsm, data, users, broadcasts, runs, nEvents>>

\* the message.answer of task k returns or raises (tfail); after it state.clear.
\* A raising confirmation is caught and answered with the failure notice;
\* every other raising answer ends the handler before state.clear
process_ad_text_notify(k, tfail) ==
    /\ k \in 1..Len(tasks)
    /\ tasks[k].pc = "notify"
    /\ LET t == tasks[k]
       IN  IF ~tfail
           THEN /\ Clear(t.u)
                /\ tasks' = [tasks EXCEPT ![k].pc = "done"]
                /\ last' = Event("process_ad_text", t.u, t.text, t.kind, FALSE, TRUE,
                                 <<Notice(t.kind, TRUE)>>)
           ELSE /\ UNCHANGED <<fsm, data>>
                /\ tasks' = IF t.kind = "published"
                            THEN [tasks EXCEPT ![k].kind = "publish_error"]
                            ELSE [tasks EXCEPT ![k].pc = "done"]
                /\ last' = Event("process_ad_text", t.u, t.text, t.kind,
                                 t.kind # "published", TRUE, <<Notice(t.kind, FALSE)>>)
    /\ UNCHANGED <<users, ads, logs, feed, broadcasts, runs, nEvents>>

\* the executions of process_ad_text that are followed at the same time
MaxTasks == 2

\* an accepted, a rejected and an ignored message text
TaskTexts == {T_resume, T_banned, T_command}

NextTasks ==
    \/ \E u \in Actors, t \in TaskTexts, dbf \in 0..2 :
          Len(tasks) < MaxTasks /\ process_ad_text_begin(u, t, dbf)
    \/ \E k \in 1..MaxTasks, tfail \in BOOLEAN, dbf \in 0..2 :
          process_ad_text_send(k, tfail, dbf)
    \/ \E k \in 1..MaxTasks, tfail \in BOOLEAN : process_ad_text_notify(k, tfail)

SpecTasks == InitSession /\ [][NextTasks]_vars

\* ------------------------------------------------ every writer of users
\* all handlers together, the chat_member updates included, in runs where the
\* messages the bot sends to users and operators are delivered
NextUsersTable ==
    \/ \E u \in Actors, gate \in GateOutcomes, dbf \in 0..3 : cmd_start(u, gate, dbf, 0)
    \/ \E u \in Actors, m \in Actors, tracked \in BOOLEAN, tr \in MemberTransitions,
             tfail \in BOOLEAN, dbf \in 0..2 :
          track_channel_member_updates(u, m, tracked, tr[1], tr[2], tfail, dbf)
    \/ \E u \in Actors : cmd_cancel(u, FALSE)
    \/ \E u \in Actors : cmd_help(u, FALSE)
    \/ \E u \in Actors : cmd_rules(u, FALSE)
    \/ \E u \in Actors, n \in ContactNumbers : process_contact(u, n, FALSE)
    \/ \E u \in Actors, t \in Texts : process_phone_text(u, t, FALSE)
    \/ \E u \in Actors, k \in MediaKinds : handle_media_in_ad(u, k, FALSE)
    \/ \E u \in Actors, t \in Texts, dbf \in 0..2 : process_ad_text(u, t, dbf, 0, FALSE)
    \/ \E u \in Actors, k \in MediaKinds : handle_media(u, k, FALSE)
    \/ \E u \in Actors, t \in Texts : handle_text_outside_state(u, t, FALSE)
    \/ \E u \in Actors : cmd_admin(u, FALSE)
    \/ \E u \in Actors : start_broadcast(u, FALSE)
    \/ \E u \in Actors, b \in BroadcastTexts : receive_broadcast_message(u, b, FALSE)
    \/ \E u \in Actors : cancel_broadcast(u, FALSE)
    \/ \E u \in Actors : confirm_broadcast(u, "ok")
    \/ \E id \in 1..MaxBroadcasts, o \in SendOutcomes, bf \in BOOLEAN :
          broadcast_send(id, o, bf, FALSE, "ok")
    \/ \E id \in 1..MaxBroadcasts : broadcast_wake(id, "ok")

SpecUsersTable == Init /\ [][NextUsersTable]_vars

\* ------------------------------------------- a broadcast to many recipients
\* one run over a users table long enough for progress reports to fall due:
\* the operator has typed the text and is looking at the confirm button
MaxRecipients == 11

ManyRegistered ==
    [n \in 1..MaxRecipients |->
        [tg_id |-> n, is_subscribed |-> TRUE, is_blocked |-> FALSE]]

InitBroadcast ==
    /\ fsm = [u \in Users |-> IF u = 1 THEN confirm_broadcast_state ELSE Idle]
    /\ data = [u \in Users |->
                 IF u = 1 THEN [EmptyData EXCEPT !.broadcast_text = "news"]
                 ELSE EmptyData]
    /\ users = ManyRegistered
    /\ ads = <<>>
    /\ logs = <<>>
    /\ feed = <<>>
    /\ broadcasts = <<>>
    /\ runs = <<>>
    /\ last = NoEvent
    /\ nEvents = 0
    /\ tasks = <<>>

\* deliveries that succeed or fail for a reason other than a blocked bot
PlainOutcomes == {"ok", "error"}

NextBroadcast ==
    \/ \E u \in Actors, cf \in ConfirmOutcomes : runs = <<>> /\ confirm_broadcast(u, cf)
    \/ \E id \in 1..MaxBroadcasts, o \in PlainOutcomes, pf \in BOOLEAN,
             fin \in FinalOutcomes :
          broadcast_send(id, o, FALSE, pf, fin)
    \/ \E id \in 1..MaxBroadcasts, fin \in FinalOutcomes : broadcast_wake(id, fin)

SpecBroadcast == InitBroadcast /\ [][NextBroadcast]_vars

\* ------------------------------------------- the validators on their own
\* texts of up to MaxTextLen characters, with both cases of a letter, the
\* blank, and letters of the configured phrases and banned words
TextChars == {"s", "S", "e", "k", "x", "X", " "}
TextInputs == UNION {[1..n -> TextChars] : n \in 0..MaxTextLen}

\* phone texts: an optional plus, a leading digit and up to MaxDigits - 1
\* further digits, typed bare, with separators or with a letter in between
DigitRun == <<"9", "1", "2", "3", "4", "5", "6", "7", "8", "0">>
FurtherDigits(n) == [i \in 1..n |-> DigitRun[((i - 1) % 10) + 1]]
BarePhones ==
    {pre \o <<d>> \o FurtherDigits(n) :
        pre \in {<<>>, <<"+">>}, d \in Digits, n \in 0..(MaxDigits - 1)}
Separated(p) ==
    IF Len(p) < 3 THEN p
    ELSE <<p[1], " ", "(">> \o SubSeq(p, 2, 3) \o <<")", "-">> \o SubSeq(p, 4, Len(p))
PhoneInputs ==
    BarePhones \cup {Separated(p) : p \in BarePhones} \cup {<<"a">> \o p : p \in BarePhones}

ValidatorInputs == TextInputs \cup PhoneInputs

\* one text is drawn; last.txt holds the argument of the next call
InitValidators ==
    /\ fsm = [u \in Users |-> Idle]
    /\ data = [u \in Users |-> EmptyData]
    /\ users = <<>>
    /\ ads = <<>>
    /\ logs = <<>>
    /\ feed = <<>>
    /\ broadcasts = <<>>
    /\ runs = <<>>
    /\ \E t \in ValidatorInputs : last = [NoEvent EXCEPT !.txt = t]
    /\ nEvents = 0
    /\ tasks = <<>>

Call(f, text, ret) == [NoEvent EXCEPT !.h = f, !.txt = text, !.ret = ret]

call_check_banned_words ==
    /\ last.h = "none"
    /\ last' = Call("check_banned_words", last.txt, check_banned_words(last.txt))
    /\ UNCHANGED <<fsm, data, users, ads, logs, feed, broadcasts, runs, nEvents, tasks>>

call_validate_ad_start ==
    /\ last.h = "none"
    /\ last' = Call("validate_ad_start", last.txt, validate_ad_start(last.txt))
    /\ UNCHANGED <<fsm, data, users, ads, logs, feed, broadcasts, runs, nEvents, tasks>>

call_validate_phone_number ==
    /\ last.h = "none"
    /\ last' = Call("validate_phone_number", last.txt, validate_phone_number(last.txt))
    /\ UNCHANGED <<fsm, data, users, ads, logs, feed, broadcasts, runs, nEvents, tasks>>

\* the number validate_phone_number returned is validated once more
call_validate_phone_number_again ==
    /\ last.h = "validate_phone_number"
    /\ last.ret # NoPhone
    /\ last' = [Call("validate_phone_number", last.ret, validate_phone_number(last.ret))
                  EXCEPT !.arg = "again"]
    /\ UNCHANGED <<fsm, data, users, ads, logs, feed, broadcasts, runs, nEvents, tasks>>

NextValidators ==
    \/ call_check_banned_words
    \/ call_validate_ad_start
    \/ call_validate_phone_number
    \/ call_validate_phone_number_again

SpecValidators == InitValidators /\ [][NextValidators]_vars

\* ================================================================ claims
LastUser == last.u

SessionDestroyed(u) == fsm[u] = Idle /\ data[u] = EmptyData

NothingPersisted ==
    Len(ads) = last.ads0 /\ Len(logs) = last.logs0 /\ Len(feed) = last.feed0

\* the last event was an ad text that reached the checks of process_ad_text
AdTextHandled ==
    /\ last.h = "process_ad_text"
    /\ ~StartsWith(last.txt, <<"/">>)
    /\ last.prePhone # NoPhone

MatchesNoPhrase(t) ==
    LET text_lower == Strip(LowerSeq(t))
    IN  /\ \A k \in 1..Len(RESUME_PHRASES) : ~StartsWith(text_lower, RESUME_PHRASES[k])
        /\ \A k \in 1..Len(VACANCY_PHRASES) : ~StartsWith(text_lower, VACANCY_PHRASES[k])

NewAds == (last.ads0 + 1)..Len(ads)

\* C1: after cmd_start has handled the /start of a user whose membership the
\* transport reports as restricted, left or kicked, the user's FSM key holds
\* no state and no data, from whatever state the command was sent; and unless
\* a persistence call aborted the handler, the only notice requested is the
\* subscribe-first notice.
C1_NonMemberStartCreatesNoSession ==
    (last.h = "cmd_start" /\ last.arg \in ChatMemberStatus \ MemberStatuses) =>
        /\ SessionDestroyed(LastUser)
        /\ last.path \in {"aborted", "not_member"}
        /\ last.path = "not_member" =>
              /\ Len(last.notices) = 1
              /\ last.notices[1].kind = "subscribe"

C1_Witness ==
    /\ last.h = "cmd_start"
    /\ last.arg = "left"
    /\ last.pre = waiting_for_ad_text
    /\ last.prePhone # NoPhone
    /\ last.path = "not_member"
    /\ last.notices[1].kind = "subscribe"
    /\ fsm[LastUser] = Idle

\* C2: a step that brings a user's session into waiting_for_ad_text is a step
\* of process_contact or process_phone_text whose input the phone normalizer
\* accepts, and the phone it stores is the normalizer's result for that input.
C2_AwaitingTextOnlyByNormalizedPhone ==
    (/\ last.h # "none"
     /\ fsm[LastUser] = waiting_for_ad_text
     /\ last.pre # waiting_for_ad_text) =>
        /\ last.h \in {"process_contact", "process_phone_text"}
        /\ validate_phone_number(last.txt) # NoPhone
        /\ data[LastUser].phone = validate_phone_number(last.txt)

\* C3: when process_ad_text has published an ad to the feed or persisted a
\* rejected Posting, the user's session is destroyed when the handler ends,
\* whatever the transport calls of the handler returned.
C3_TerminalOutcomeDestroysSession ==
    (/\ AdTextHandled
     /\ \/ Len(feed) > last.feed0
        \/ \E i \in NewAds : ads[i].status = "rejected") =>
        SessionDestroyed(LastUser)

\* C4: after cmd_cancel the user has no session and no collected phone, and
\* nothing was persisted or published; sent in Idle, where there was no phone,
\* it only answers that there is nothing to cancel.
C4_CancelDestroysSession ==
    last.h = "cmd_cancel" =>
        /\ SessionDestroyed(LastUser)
        /\ NothingPersisted
        /\ last.pre = Idle => last.prePhone = NoPhone /\ last.path = "nothing"
        /\ last.pre # Idle => last.path = "cancelled"

C4_Witness ==
    /\ last.h = "cmd_cancel"
    /\ last.pre = waiting_for_ad_text
    /\ last.prePhone # NoPhone
    /\ fsm[LastUser] = Idle
    /\ data[LastUser].phone = NoPhone

\* C5: an ad text that contains a banned word takes the banned-content
\* rejection, also when it starts with a recognized phrase: nothing is sent to
\* the feed, every Posting persisted for it is rejected with category unknown
\* and the banned-content reason, and when the persistence calls succeed
\* exactly one such Posting and one ad_rejected LogEntry are appended.
C5_BannedRejectedBeforeClassifier ==
    (AdTextHandled /\ check_banned_words(Strip(last.txt))) =>
        /\ last.path = "banned"
        /\ Len(feed) = last.feed0
        /\ Len(ads) <= last.ads0 + 1
        /\ Len(logs) <= last.logs0 + 1
        /\ \A i \in NewAds :
              /\ ads[i].status = "rejected"
              /\ ads[i].ad_type = "unknown"
              /\ ads[i].rejection_reason = BannedReason
              /\ ads[i].tg_id = LastUser
        /\ last.dbok =>
              /\ Len(ads) = last.ads0 + 1
              /\ Len(logs) = last.logs0 + 1
              /\ logs[Len(logs)] = [log_type |-> "ad_rejected", tg_id |-> LastUser]

C5_Witness ==
    /\ AdTextHandled
    /\ last.txt = T_banned
    /\ validate_ad_start(Strip(last.txt)) = "resume"
    /\ last.dbok
    /\ Len(ads) = last.ads0 + 1
    /\ ads[Len(ads)].rejection_reason = BannedReason

\* C6: an ad text without banned words that starts with no phrase of either
\* list is rejected for the missing opening phrase: nothing is sent to the
\* feed, and when the persistence calls succeed exactly one rejected Posting
\* and one ad_rejected LogEntry are appended and the rejection notice is
\* requested.
C6_NoPhraseRejected ==
    (/\ AdTextHandled
     /\ ~check_banned_words(Strip(last.txt))
     /\ MatchesNoPhrase(Strip(last.txt))) =>
        /\ last.path = "no_phrase"
        /\ Len(feed) = last.feed0
        /\ Len(ads) <= last.ads0 + 1
        /\ Len(logs) <= last.logs0 + 1
        /\ \A i \in NewAds :
              /\ ads[i].status = "rejected"
              /\ ads[i].ad_type = "unknown"
              /\ ads[i].rejection_reason = PhraseReason
              /\ ads[i].tg_id = LastUser
        /\ last.dbok =>
              /\ Len(ads) = last.ads0 + 1
              /\ Len(logs) = last.logs0 + 1
              /\ logs[Len(logs)] = [log_type |-> "ad_rejected", tg_id |-> LastUser]
              /\ Len(last.notices) = 1
              /\ last.notices[1].kind = "no_phrase"

C6_Witness ==
    /\ AdTextHandled
    /\ last.txt = T_late
    /\ last.path = "no_phrase"
    /\ last.dbok
    /\ Len(ads) = last.ads0 + 1
    /\ ads[Len(ads)].rejection_reason = PhraseReason
    /\ last.notices[1].ok

\* the ad text passed both checks
AdAccepted ==
    /\ AdTextHandled
    /\ ~check_banned_words(Strip(last.txt))
    /\ ~MatchesNoPhrase(Strip(last.txt))

ExpectedHashtag(t) ==
    IF validate_ad_start(t) = "resume" THEN RESUME_HASHTAG ELSE VACANCY_HASHTAG

\* C7: when an ad text passed both checks, the feed accepted the post and the
\* persistence calls succeeded, the post is the stripped draft, the contact
\* line with the collected phone and the hashtag of the category; exactly one
\* Posting is appended, published, with the classifier's category, the draft
\* with the contact line and the message id the feed returned; and one
\* ad_published LogEntry is appended.
C7_PublishedPostingMatchesPublication ==
    (AdAccepted /\ Len(feed) > last.feed0 /\ last.dbok) =>
        LET t == Strip(last.txt)
            m == feed[Len(feed)]
        IN  /\ Len(feed) = last.feed0 + 1
            /\ m.text = t \o ContactLine \o last.prePhone
                          \o <<"\n", "\n", ExpectedHashtag(t)>>
            /\ Len(ads) = last.ads0 + 1
            /\ ads[Len(ads)] =
                  [tg_id |-> LastUser, ad_text |-> t \o ContactLine \o last.prePhone,
                   ad_type |-> validate_ad_start(t), status |-> "published",
                   rejection_reason |-> NoReason, message_id |-> m.message_id]
            /\ validate_ad_start(t) \in {"resume", "vacancy"}
            /\ Len(logs) = last.logs0 + 1
            /\ logs[Len(logs)] = [log_type |-> "ad_published", tg_id |-> LastUser]

C7_Witness ==
    /\ AdAccepted
    /\ last.txt = T_resume
    /\ last.prePhone = P_plus7
    /\ last.dbok
    /\ Len(feed) = last.feed0 + 1
    /\ ads[Len(ads)].status = "published"
    /\ ads[Len(ads)].ad_type = "resume"
    /\ ads[Len(ads)].message_id = feed[Len(feed)].message_id

C9_PostingWellFormed ==
    \A i \in 1..Len(ads) :
        /\ ads[i].status \in {"published", "rejected"}
        /\ ads[i].ad_type = "unknown" => ads[i].status = "rejected"
        /\ ads[i].rejection_reason # NoReason <=> ads[i].status = "rejected"
        /\ ads[i].message_id # NoMessageId <=> ads[i].status = "published"

C9_Witness ==
    \E i \in 1..Len(ads) :
        /\ ads[i].status = "rejected"
        /\ ads[i].ad_type = "unknown"
        /\ ads[i].rejection_reason = PhraseReason
        /\ ads[i].message_id = NoMessageId

\* C10 as stated: for every broadcasts row sent + failed <= total, and
\* sent + failed = total exactly when the row's status is completed.
C10_CountsCompleteExactlyWhenCompleted ==
    \A id \in 1..Len(broadcasts) :
        /\ broadcasts[id].sent_count + broadcasts[id].failed_count
              <= broadcasts[id].total_users
        /\ broadcasts[id].sent_count + broadcasts[id].failed_count
              = broadcasts[id].total_users
           <=> broadcasts[id].status = "completed"

\* C10 amended: for every broadcasts row, and for the loop's own counters,
\* sent + failed <= total at every point, and a completed row has
\* sent + failed = total.
C10_CountsBoundedAndCompleteWhenCompleted ==
    \A id \in 1..Len(broadcasts) :
        /\ broadcasts[id].sent_count + broadcasts[id].failed_count
              <= broadcasts[id].total_users
        /\ runs[id].sent + runs[id].failed <= broadcasts[id].total_users
        /\ broadcasts[id].status = "completed" =>
              /\ broadcasts[id].sent_count + broadcasts[id].failed_count
                    = broadcasts[id].total_users
              /\ broadcasts[id].sent_count = runs[id].sent
              /\ broadcasts[id].failed_count = runs[id].failed

C10_Witness ==
    \E id \in 1..Len(broadcasts) :
        /\ broadcasts[id].status = "completed"
        /\ broadcasts[id].failed_count > 0
        /\ broadcasts[id].sent_count > 0
        /\ broadcasts[id].sent_count + broadcasts[id].failed_count
              = broadcasts[id].total_users

\* the last event was a step of a broadcast run
BroadcastStep == last.h \in {"broadcast_send", "broadcast_wake"}

\* the step left the loop and the calls up to add_log returned
SummaryLogged == BroadcastStep /\ last.arg \in {"ok", "edit_fails"}

Delivered(a) == {k \in 1..Len(a) : a[k].outcome = "ok"}

Undelivered(a) == {k \in 1..Len(a) : a[k].outcome # "ok"}

\* C11: the k-th delivery attempt of a run goes to the k-th recipient of its
\* snapshot, whose recipients are distinct, so every recipient is tried at
\* most once and in list order; a completed row has one attempt per
\* recipient, sent_count the number of attempts that succeeded and
\* failed_count the number that failed; the step that finalizes a run
\* through add_log appends exactly one broadcast LogEntry of the operator,
\* and no other step of a run appends a LogEntry.
C11_EachRecipientOnceCountsPersisted ==
    /\ \A id \in 1..Len(runs) :
          LET r == runs[id]
              a == r.attempts
          IN  /\ Len(a) <= r.total
              /\ \A k \in 1..Len(a) : a[k].tg_id = r.users[k]
              /\ \A j, k \in 1..r.total : j # k => r.users[j] # r.users[k]
              /\ broadcasts[id].status = "completed" =>
                    /\ Len(a) = r.total
                    /\ broadcasts[id].sent_count = Cardinality(Delivered(a))
                    /\ broadcasts[id].failed_count = Cardinality(Undelivered(a))
    /\ SummaryLogged =>
          /\ broadcasts[last.id].status = "completed"
          /\ Len(logs) = last.logs0 + 1
          /\ logs[Len(logs)] = [log_type |-> "broadcast", tg_id |-> runs[last.id].admin]
    /\ (BroadcastStep /\ ~SummaryLogged) => Len(logs) = last.logs0

C11_Witness ==
    /\ SummaryLogged
    /\ last.arg = "ok"
    /\ runs[last.id].total = 2
    /\ runs[last.id].attempts[1].outcome = "blocked"
    /\ runs[last.id].attempts[2].outcome = "ok"
    /\ broadcasts[last.id].sent_count = 1
    /\ broadcasts[last.id].failed_count = 1
    /\ logs[Len(logs)].log_type = "broadcast"

\* the delivery attempt the last step made
LastAttempt == runs[last.id].attempts[Len(runs[last.id].attempts)]

\* the last step's delivery failed with the blocked error and block_user returned
MarkedBlocked ==
    /\ last.h = "broadcast_send"
    /\ LastAttempt.outcome = "blocked"
    /\ last.dbok

C12_Step ==
    BroadcastStep' =>
        /\ Len(users') = Len(users)
        /\ \A i \in 1..Len(users) :
              users'[i] = IF MarkedBlocked' /\ users[i].tg_id = LastAttempt'.tg_id
                          THEN [users[i] EXCEPT !.is_blocked = TRUE]
                          ELSE users[i]

\* C12: a step of a broadcast run changes the users table in one way only:
\* when the delivery it made failed with the blocked error (and block_user
\* returned), the row of that recipient gets is_blocked true; after a
\* delivery that succeeded or failed with another error, and for every other
\* row, recipient or not, the row is the same as before the step.
C12_OnlyBlockedRecipientsFlagged == [][C12_Step]_vars

C12_Witness ==
    /\ MarkedBlocked
    /\ Len(runs[last.id].attempts) = 2
    /\ runs[last.id].attempts[1].outcome = "error"
    /\ \E i, j, k \in 1..Len(users) :
          /\ users[i].tg_id = LastAttempt.tg_id /\ users[i].is_blocked
          /\ users[j].tg_id = runs[last.id].attempts[1].tg_id /\ ~users[j].is_blocked
          /\ \A n \in 1..runs[last.id].total : runs[last.id].users[n] # users[k].tg_id

\* the handler of the run has returned or raised
Ended(r) == r.pc \in {"done", "aborted"}

\* C13: a run whose handler has ended has attempted every recipient of its
\* snapshot, and its row is completed unless update_broadcast_stats or
\* complete_broadcast raised.
C13_DeliveryFailureNeverAborts ==
    \A id \in 1..Len(runs) :
        Ended(runs[id]) =>
            /\ Len(runs[id].attempts) = runs[id].total
            /\ \/ broadcasts[id].status = "completed"
               \/ runs[id].exc \in {"update_fails", "complete_fails"}

\* the SubmissionSession a user's FSM key holds: the submission state (Idle
\* when the key holds no state or a state of the broadcast flow) and the phone
SubmissionSession(f, d, u) ==
    [state |-> IF f[u] \in {waiting_for_phone, waiting_for_ad_text} THEN f[u] ELSE Idle,
     phone |-> d[u].phone]

BroadcastFlow ==
    {"start_broadcast", "receive_broadcast_message", "confirm_broadcast",
     "cancel_broadcast", "broadcast_send", "broadcast_wake"}

C14_Step ==
    last'.h \in BroadcastFlow =>
        \A u \in Users : SubmissionSession(fsm', data', u) = SubmissionSession(fsm, data, u)

\* C14: a step of the broadcast flow (start, message entry, confirmation,
\* cancellation, a step of the run) leaves the submission state and the
\* collected phone of every user, the operator included, as they were.
C14_BroadcastLeavesSessionsAlone == [][C14_Step]_vars

\* the last event was a chat_member update of the tracked channel in which
\* the user changed their own membership (from_user is the member)
OwnTransition ==
    /\ last.h = "track_channel_member_updates"
    /\ last.path # "other_chat"
    /\ last.member = LastUser

\* the is_subscribed values of the rows of a user (none when not registered)
SubscribedFlags(tg_id) ==
    {users[i].is_subscribed : i \in {j \in 1..Len(users) : users[j].tg_id = tg_id}}

\* C15: after the handler of a transition of a user from left or kicked to
\* member, administrator or creator, in which no persistence call raised,
\* the onboarding message is the one message requested and the user's row,
\* if there is one, has is_subscribed true, whether the delivery of the
\* message succeeded or raised.
C15_JoinSetsSubscribed ==
    (/\ OwnTransition
     /\ last.txt[1] \in NotMemberStatuses
     /\ last.txt[2] \in MemberStatuses
     /\ last.dbok) =>
        /\ Len(last.notices) = 1
        /\ last.notices[1].kind = "onboarding"
        /\ SubscribedFlags(last.member) \subseteq {TRUE}

\* C16: after the handler of a transition of a user from member,
\* administrator or creator to left or kicked, in which no persistence call
\* raised, the churn question is the one message requested, the user's row,
\* if there is one, has is_subscribed false, and exactly one LogEntry, an
\* unsubscribe entry of that user, was appended, whether the delivery of the
\* message succeeded or raised.
C16_LeaveClearsSubscribedAndLogs ==
    (/\ OwnTransition
     /\ last.txt[1] \in MemberStatuses
     /\ last.txt[2] \in NotMemberStatuses
     /\ last.dbok) =>
        /\ Len(last.notices) = 1
        /\ last.notices[1].kind = "churn_question"
        /\ SubscribedFlags(last.member) \subseteq {FALSE}
        /\ Len(logs) = last.logs0 + 1
        /\ logs[Len(logs)] = [log_type |-> "unsubscribe", tg_id |-> last.member]

\* the text between its first and its last non-blank character, lower-cased
NonBlank(t) == {i \in 1..Len(t) : t[i] \notin Whitespace}

First(S) == CHOOSE i \in S : \A j \in S : i <= j

Final(S) == CHOOSE i \in S : \A j \in S : j <= i

TrimmedLower(t) ==
    IF NonBlank(t) = {} THEN <<>>
    ELSE [i \in 1..(Final(NonBlank(t)) - First(NonBlank(t)) + 1) |->
             Lower(t[First(NonBlank(t)) + i - 1])]

IsPrefix(p, t) == Len(p) <= Len(t) /\ \A i \in 1..Len(p) : t[i] = p[i]

SomePrefix(phrases, t) == \E k \in 1..Len(phrases) : IsPrefix(phrases[k], t)

\* C17: the value validate_ad_start returns for a text is fixed by the text:
\* resume when a phrase of RESUME_PHRASES is a prefix of the trimmed,
\* lower-cased text, whether or not a phrase of VACANCY_PHRASES is a prefix
\* too; vacancy when no resume phrase but a vacancy phrase is a prefix; None
\* otherwise, also when a phrase occurs later in the text.
C17_ClassifierByPrefixResumeFirst ==
    last.h = "validate_ad_start" =>
        LET t == TrimmedLower(last.txt)
        IN  last.ret = IF SomePrefix(RESUME_PHRASES, t) THEN "resume"
                       ELSE IF SomePrefix(VACANCY_PHRASES, t) THEN "vacancy"
                       ELSE NoType

C17_Witness ==
    /\ last.h = "validate_ad_start"
    /\ last.txt = <<" ", "S", "e", "e", "k">>
    /\ SomePrefix(RESUME_PHRASES, TrimmedLower(last.txt))
    /\ SomePrefix(VACANCY_PHRASES, TrimmedLower(last.txt))
    /\ last.ret = "resume"

\* the other case of a letter that has two
Upper(c) ==
    CASE c = "s" -> "S"
      [] c = "e" -> "E"
      [] c = "k" -> "K"
      [] c = "h" -> "H"
      [] c = "x" -> "X"
      [] OTHER -> c

\* the positions of t that hold a letter with two cases
Cased(t) == {i \in 1..Len(t) : Upper(Lower(t[i])) # Lower(t[i])}

\* the texts that differ from t in letter case only
CaseVariants(t) ==
    {[i \in 1..Len(t) |-> IF i \in S THEN Upper(Lower(t[i])) ELSE Lower(t[i])] :
        S \in SUBSET Cased(t)}

OccursIn(w, t) ==
    \E i \in 0..(Len(t) - Len(w)) : \A j \in 1..Len(w) : t[i + j] = w[j]

\* C20: check_banned_words returns true for a text exactly when a word of
\* BANNED_WORDS occurs in the text with every letter lower-cased, and every
\* text that differs from it in letter case only gets the same result.
C20_BannedFilterIgnoresCase ==
    last.h = "check_banned_words" =>
        /\ last.ret = (\E k \in 1..Len(BANNED_WORDS) :
                          OccursIn(BANNED_WORDS[k], [i \in 1..Len(last.txt) |->
                                                       Lower(last.txt[i])]))
        /\ \A t \in CaseVariants(last.txt) : check_banned_words(t) = last.ret

C20_Witness ==
    /\ last.h = "check_banned_words"
    /\ last.txt = <<"s", "e", " ", "X", "x">>
    /\ last.ret = TRUE
    /\ <<"s", "e", " ", "x", "x">> \in CaseVariants(last.txt)
    /\ <<"S", "E", " ", "x", "X">> \in CaseVariants(last.txt)

\* C18: when validate_phone_number is applied to a number it returned for
\* an input it accepted, it accepts that number and returns it unchanged.
C18_NormalizationIdempotent ==
    (last.h = "validate_phone_number" /\ last.arg = "again") =>
        /\ last.ret # NoPhone
        /\ last.ret = last.txt

\* what is left of a text when every character but digits and '+' is removed
DigitsAndPlus(t) == SelectSeq(t, LAMBDA c : c \in Digits \cup {"+"})

\* C19: for a text whose digits and '+' match one of the five patterns,
\* validate_phone_number returns a '+' followed by digits only; for every
\* other text it returns None.
C19_ResultCanonicalOrInvalid ==
    last.h = "validate_phone_number" =>
        IF PhonePatternMatches(DigitsAndPlus(last.txt))
        THEN /\ Len(last.ret) >= 2
             /\ last.ret[1] = "+"
             /\ \A i \in 2..Len(last.ret) : last.ret[i] \in Digits
        ELSE last.ret = NoPhone

\* C21: after process_phone_text has handled a text that is no command and
\* that validate_phone_number rejects, an ad text included, the user is
\* still in waiting_for_phone with no phone stored, the one notice requested
\* is the wrong-format prompt, and no Posting, LogEntry or feed post was made.
C21_RejectedPhoneKeepsAwaitingPhone ==
    (/\ last.h = "process_phone_text"
     /\ ~StartsWith(last.txt, <<"/">>)
     /\ validate_phone_number(last.txt) = NoPhone) =>
        /\ last.pre = waiting_for_phone
        /\ fsm[LastUser] = waiting_for_phone
        /\ data[LastUser].phone = NoPhone
        /\ Len(last.notices) = 1
        /\ last.notices[1].kind = "bad_phone"
        /\ NothingPersisted

C21_Witness ==
    /\ last.h = "process_phone_text"
    /\ last.txt = T_resume
    /\ validate_ad_start(last.txt) = "resume"
    /\ fsm[LastUser] = waiting_for_phone
    /\ data[LastUser].phone = NoPhone
    /\ last.notices[1].kind = "bad_phone"

\* the last event was a media message of a user with an active session
MediaInSession ==
    /\ last.h \in {"handle_media_in_ad", "handle_media"}
    /\ last.pre \in AdCreationStates

\* C22: after a media message of a user in waiting_for_phone or
\* waiting_for_ad_text the user's state and stored phone are what they were,
\* no Posting, LogEntry or feed post was made, and the one notice requested
\* is a notice that says the ad must be text only (the answer of
\* handle_media_in_ad, or the answer of handle_media, which says so too).
C22_MediaLeavesSessionUnchanged ==
    MediaInSession =>
        /\ fsm[LastUser] = last.pre
        /\ data[LastUser].phone = last.prePhone
        /\ NothingPersisted
        /\ Len(last.notices) = 1
        /\ last.notices[1].kind \in {"text_only", "use_start"}
        /\ (last.pre = waiting_for_ad_text /\ last.path \in AdMediaKinds) =>
              last.notices[1].kind = "text_only"

C22_Witness ==
    /\ last.h = "handle_media_in_ad"
    /\ last.path = "photo"
    /\ last.pre = waiting_for_ad_text
    /\ last.prePhone = P_plus7
    /\ fsm[LastUser] = waiting_for_ad_text
    /\ data[LastUser].phone = P_plus7
    /\ last.notices[1].kind = "text_only"

\* the last event was a text with a leading '/' that reached the text
\* handler of an active session (no command handler took it)
UnknownCommandInSession ==
    /\ last.h \in {"process_phone_text", "process_ad_text"}
    /\ StartsWith(last.txt, <<"/">>)

\* C23: after a text with a leading '/' that is none of the registered
\* commands has been handled for a user in waiting_for_phone or
\* waiting_for_ad_text, the user's state and stored phone are what they
\* were (the text was stored neither as phone nor as ad), nothing was
\* persisted or published, and no notice was sent.
C23_UnknownCommandIgnoredInSession ==
    UnknownCommandInSession =>
        /\ last.pre \in AdCreationStates
        /\ fsm[LastUser] = last.pre
        /\ data[LastUser].phone = last.prePhone
        /\ NothingPersisted
        /\ last.notices = <<>>

C23_Witness ==
    /\ UnknownCommandInSession
    /\ last.h = "process_ad_text"
    /\ last.txt = T_command
    /\ last.pre = waiting_for_ad_text
    /\ last.prePhone # NoPhone
    /\ fsm[LastUser] = waiting_for_ad_text
    /\ data[LastUser].phone = last.prePhone

\* the notices of process_ad_text that tell the user the outcome of the ad
OutcomeNotices == {"banned", "no_phrase", "published"}

\* process_ad_text requested an outcome notice in the last event
OutcomeNoticeRequested ==
    /\ AdTextHandled
    /\ \E i \in 1..Len(last.notices) : last.notices[i].kind \in OutcomeNotices

\* C24: whenever process_ad_text has requested the notice of a rejection or
\* of a publication, delivered or not, one Posting of the user and one
\* LogEntry of the user have been appended by that handler run: rejected and
\* ad_rejected with a rejection notice, published and ad_published with the
\* publication notice.
C24_PersistedBeforeNotification ==
    OutcomeNoticeRequested =>
        /\ Len(ads) = last.ads0 + 1
        /\ Len(logs) = last.logs0 + 1
        /\ ads[Len(ads)].tg_id = LastUser
        /\ logs[Len(logs)].tg_id = LastUser
        /\ IF last.notices[1].kind = "published"
           THEN /\ ads[Len(ads)].status = "published"
                /\ logs[Len(logs)].log_type = "ad_published"
           ELSE /\ ads[Len(ads)].status = "rejected"
                /\ logs[Len(logs)].log_type = "ad_rejected"

C24_Witness ==
    /\ OutcomeNoticeRequested
    /\ last.notices[1].kind = "no_phrase"
    /\ ~last.notices[1].ok
    /\ Len(ads) = last.ads0 + 1
    /\ ads[Len(ads)].status = "rejected"
    /\ logs[Len(logs)].log_type = "ad_rejected"

\* a progress report was pushed by the delivery step just taken
ProgressPushed ==
    /\ last.notices # <<>>
    /\ last.notices[1].kind = "progress"

\* the recipients the run has processed so far, delivered or not
Processed(r) == r.sent + r.failed

\* C25: during a broadcast run a progress report is pushed each time the
\* number of processed recipients (sent + failed) reaches a multiple of 10,
\* whether that recipient's delivery succeeded or failed, and at no other
\* point of the loop.
C25_ProgressEveryTenProcessed ==
    (last.h = "broadcast_send" /\ last.path # "aborted") =>
        (ProgressPushed <=> Processed(runs[last.id]) % ProgressInterval = 0)

\* the progress report of the delivery step just taken could not be pushed
ProgressPushFailed ==
    /\ last.h = "broadcast_send"
    /\ ProgressPushed
    /\ ~last.notices[1].ok

C27_DelayBetweenConsecutiveAttempts ==
    \A id \in 1..Len(runs) :
        Len(runs[id].attempts) >= 2 =>
            runs[id].slept >= Len(runs[id].attempts) - 1

\* the update just handled moved its user from outside the channel to inside
JoinEdge ==
    /\ last.txt[1] \in NotMemberStatuses
    /\ last.txt[2] \in MemberStatuses

\* the update just handled moved its user from inside the channel to outside
LeaveEdge ==
    /\ last.txt[1] \in MemberStatuses
    /\ last.txt[2] \in NotMemberStatuses

NoticeKinds == [k \in 1..Len(last.notices) |-> last.notices[k].kind]

\* C28: a membership-transition event produces at most one notification: a
\* join edge of the channel exactly the onboarding message, a leave edge of
\* the channel exactly the churn inquiry, never both, and an event of another
\* chat or one that is neither edge none; so n alternating leave/join
\* events produce n notifications, one per edge.
C28_OneNotificationPerEdge ==
    last.h = "track_channel_member_updates" =>
        /\ Len(last.notices) <= 1
        /\ (last.arg = "channel" /\ JoinEdge) => NoticeKinds = <<"onboarding">>
        /\ (last.arg = "channel" /\ LeaveEdge) => NoticeKinds = <<"churn_question">>
        /\ (last.arg # "channel" \/ (~JoinEdge /\ ~LeaveEdge)) => NoticeKinds = <<>>

\* a leave edge of the channel was answered with the churn inquiry alone
\* after an earlier event had been handled
C28_Witness ==
    /\ last.h = "track_channel_member_updates"
    /\ last.arg = "channel"
    /\ LeaveEdge
    /\ NoticeKinds = <<"churn_question">>
    /\ nEvents >= 2

C29_Step ==
    /\ Len(users') >= Len(users)
    /\ \A i \in 1..Len(users) :
          /\ users'[i].tg_id = users[i].tg_id
          /\ users'[i].is_blocked # users[i].is_blocked =>
                /\ users'[i].is_blocked
                /\ MarkedBlocked'
                /\ users[i].tg_id = LastAttempt'.tg_id
    /\ \A i \in (Len(users) + 1)..Len(users') : ~users'[i].is_blocked

\* C29: the blocked flag of a User changes only from false to true and only
\* in the step of a broadcast run whose delivery to that user failed with the
\* blocked error; a step of the submission pipeline, of the subscription gate
\* or of the membership tracker leaves every blocked flag as it was, a new
\* User starts unblocked, and no step removes a row of the users table.
C29_BlockedOnlyByBroadcastNeverDeleted == [][C29_Step]_vars

\* the tracker has written the subscription flag of a user next to a row that
\* an earlier broadcast had flagged as blocked, and that row is still flagged
C29_Witness ==
    /\ last.h = "track_channel_member_updates"
    /\ last.path = "left"
    /\ last.dbok
    /\ \E i, j \in 1..Len(users) :
          /\ users[i].tg_id = last.u /\ ~users[i].is_subscribed /\ ~users[i].is_blocked
          /\ users[j].tg_id # last.u /\ users[j].is_blocked

\* the notices that tell the user to try again later
TryLaterNotices == {"publish_error"}

\* the publication of an accepted ad to the feed failed in the last step
PublicationFailed ==
    /\ last.h = "process_ad_text"
    /\ last.path = "accepted"
    /\ Len(feed) = last.feed0

\* the membership query of the last /start failed, nothing else did
MembershipQueryFailed ==
    /\ last.h = "cmd_start"
    /\ last.arg = "error"
    /\ last.dbok

\* C30: a transient transport failure is surfaced to the user as a
\* try-again-later notice and is not retried: after a failed publication to
\* the feed the one notice is the try-again-later notice and nothing was
\* posted, and after a failed membership query at /start the user gets a
\* try-again-later notice instead of the subscribe-first notice of a
\* non-member.
C30_TransientFailureSurfacedAsTryLater ==
    /\ PublicationFailed =>
          /\ Len(last.notices) = 1
          /\ last.notices[1].kind \in TryLaterNotices
    /\ MembershipQueryFailed =>
          /\ Len(last.notices) >= 1
          /\ \A k \in 1..Len(last.notices) : last.notices[k].kind \in TryLaterNotices

\* a persistence call of the ad-text handler raised in the last step
PersistenceFailed ==
    /\ AdTextHandled
    /\ ~last.dbok

\* C31: when persisting a record fails in the publication pipeline the
\* operation is aborted, the user gets the generic failure notice and no
\* partial state is left: no feed publication without its Posting, no
\* Posting without its LogEntry, and the session is not left in AwaitingText.
C31_PersistenceFailureLeavesNoPartialState ==
    PersistenceFailed =>
        /\ \E k \in 1..Len(last.notices) : last.notices[k].kind = "publish_error"
        /\ Len(feed) > last.feed0 => Len(ads) > last.ads0
        /\ Len(ads) > last.ads0 => Len(logs) > last.logs0
        /\ fsm[LastUser] # waiting_for_ad_text

InProgress == {id \in 1..Len(broadcasts) : broadcasts[id].status = "in_progress"}

\* C32: at most one BroadcastRun has status in_progress at any time, also
\* when the confirm button is pressed again while a run is still looping.
C32_AtMostOneRunInProgress == Cardinality(InProgress) <= 1

PostingsOf(u) == {i \in 1..Len(ads) : ads[i].tg_id = u}

\* C33: handler executions for one user do not interleave at their awaits,
\* so one session yields at most one outcome: in the session of user 1 that
\* the start state holds (no start command follows) at most one Posting of
\* that user is persisted and at most one post is sent to the feed.
C33_OneOutcomePerSession ==
    /\ Cardinality(PostingsOf(1)) <= 1
    /\ Len(feed) <= 1

C34_Step ==
    /\ \A v \in Users : v # last'.u => (fsm'[v] = fsm[v] /\ data'[v] = data[v])
    /\ last'.h = "track_channel_member_updates" => (fsm' = fsm /\ data' = data)

\* C34: the handler of an event of user u writes only u's session entry: the
\* FSM state and data (collected phone) of every other user are the same
\* after the step as before it; a membership-transition event changes the
\* entry of no user, its own included.
C34_OnlyOwnSessionWritten == [][C34_Step]_vars

\* user 1 cancelled a session of their own while user 3 was waiting to give a
\* phone, and user 3 is still waiting
C34_Witness ==
    /\ last.h = "cmd_cancel"
    /\ last.u = 1
    /\ last.pre # Idle
    /\ fsm[1] = Idle
    /\ fsm[3] = waiting_for_phone

C35_Step ==
    (last'.h = "cmd_start" /\ last'.dbok) =>
        /\ last'.arg \in ChatMemberStatus =>
              \A i \in 1..Len(users') :
                  users'[i].tg_id = last'.u =>
                      users'[i].is_subscribed = (last'.arg \in MemberStatuses)
        /\ last'.arg = "error" =>
              /\ \A i \in 1..Len(users) : users'[i] = users[i]
              /\ last'.path = "not_member"
              /\ fsm'[last'.u] = Idle

\* C35: the subscription gate records what it observed: after a /start in
\* which no persistence call raised and the membership query returned a
\* status, the row of the user has is_subscribed true exactly for member,
\* administrator and creator; when the query raised, every row that existed
\* before the command is unchanged and the command takes the not-member path.
C35_GateRecordsObservedMembership == [][C35_Step]_vars

\* a registered user whose flag was true sent /start and the query reported
\* that they had left: the flag is now false
C35_Witness ==
    /\ last.h = "cmd_start"
    /\ last.arg = "left"
    /\ last.dbok
    /\ nEvents >= 2
    /\ \E i \in 1..Len(users) : users[i].tg_id = last.u /\ ~users[i].is_subscribed

\* the text ends in the contact line followed by a phone of at least one character
HasContact(t) ==
    \E n \in 1..Len(t) :
        /\ n + Len(ContactLine) <= Len(t)
        /\ SubSeq(t, n, n + Len(ContactLine) - 1) = ContactLine

\* C36: a session that waits for the ad text holds a collected phone, so
\* the missing-phone branch of process_ad_text is never taken and the text of
\* every persisted Posting carries the contact line with a non-empty phone.
C36_AwaitingTextHoldsPhone ==
    /\ \A u \in Users : fsm[u] = waiting_for_ad_text => data[u].phone # NoPhone
    /\ last.path # "no_phone"
    /\ \A i \in 1..Len(ads) : HasContact(ads[i].ad_text)

\* an ad text was handled in a session and its Posting was persisted
C36_Witness ==
    /\ last.h = "process_ad_text"
    /\ last.pre = waiting_for_ad_text
    /\ last.prePhone # NoPhone
    /\ Len(ads) > last.ads0
    /\ HasContact(ads[Len(ads)].ad_text)

\* C37: /start resets the submission from any state: when the membership
\* query reports a member (and no persistence call raised) the session is left
\* in waiting_for_phone with no collected phone, whatever state and phone the
\* user had before; when it reports a non-member while a session is active,
\* the session is destroyed.
C37_StartResetsSubmission ==
    /\ (last.h = "cmd_start" /\ last.arg \in MemberStatuses /\ last.dbok) =>
          /\ fsm[LastUser] = waiting_for_phone
          /\ data[LastUser].phone = NoPhone
    /\ (/\ last.h = "cmd_start"
        /\ last.arg \in ChatMemberStatus \ MemberStatuses
        /\ last.pre \in AdCreationStates) => SessionDestroyed(LastUser)

\* the rows of the users table that are flagged as blocked
BlockedIds(us) == {us[i].tg_id : i \in {j \in 1..Len(us) : us[j].is_blocked}}

Snapshot(r) == {r.users[n] : n \in 1..Len(r.users)}

C38_Step ==
    /\ BlockedIds(users) \subseteq BlockedIds(users')
    /\ Len(runs') > Len(runs) =>
          Snapshot(runs'[Len(runs')]) \cap BlockedIds(users) = {}

\* C38: the blocked flag is monotonic: a user who is flagged as blocked is
\* flagged after every later step, a /start of that user, a membership
\* transition and another broadcast included, and a run that starts takes
\* no user into its recipient snapshot who is flagged at that moment.
C38_BlockedIsMonotonic == [][C38_Step]_vars

\* user 3 was blocked by the first run and has sent /start since; a second
\* run has started and its snapshot leaves user 3 out
C38_Witness ==
    /\ last.h = "confirm_broadcast"
    /\ Len(runs) = 2
    /\ 3 \in Snapshot(runs[1])
    /\ 3 \notin Snapshot(runs[2])
    /\ 3 \in BlockedIds(users)
    /\ \E i \in 1..Len(logs) : logs[i].log_type = "start" /\ logs[i].tg_id = 3

\* C39: only a user of the administrator list causes a broadcast: every
\* broadcasts row and every run belongs to an administrator, every step of a
\* run is a step of an administrator's handler, and no user outside the list
\* is ever in a state of the broadcast dialogue.
C39_OnlyAdminsBroadcast ==
    /\ \A id \in 1..Len(broadcasts) : is_admin(broadcasts[id].admin_id)
    /\ \A id \in 1..Len(runs) : is_admin(runs[id].admin)
    /\ BroadcastStep => is_admin(last.u)
    /\ \A u \in Users : fsm[u] \in BroadcastStates => u \in ADMIN_IDS

\* user 3, who is not an administrator, pressed the broadcast button, was
\* turned away and is in no state of the broadcast dialogue
C39_Witness ==
    /\ last.h = "start_broadcast"
    /\ last.u \notin ADMIN_IDS
    /\ last.path = "denied"
    /\ fsm[last.u] \notin BroadcastStates

\* C40: for every membership transition of the channel that is a join or a
\* leave edge, the user the message is sent to and whose subscription flag
\* is written (last.u) is the user whose membership changed (last.member),
\* also when another user performed the change; when the message was
\* delivered and no persistence call raised, the row of the user whose
\* membership changed holds the new membership.
C40_NotifiedUserIsTheMember ==
    (/\ last.h = "track_channel_member_updates"
     /\ last.arg = "channel"
     /\ JoinEdge \/ LeaveEdge) =>
        /\ last.u = last.member
        /\ (last.dbok /\ last.notices[1].ok) =>
              SubscribedFlags(last.member) \subseteq {JoinEdge}

====
